---- MODULE Spec2Model ----
(***************************************************************************)
(* Model of the versioned-model lifecycle of the anomaly detection         *)
(* services: the training service (POST /fit/{series_id}), the inference   *)
(* service (POST /predict/{series_id}) with its Redis caches, and the      *)
(* PostgreSQL tables trained_models, training_data and prediction_logs.    *)
(*                                                                         *)
(* Floats are modelled by integers; the training inputs are chosen so that *)
(* mean and population standard deviation are exact integers.  Each        *)
(* request handler runs as a process whose steps are its accesses to the   *)
(* database and to Redis; a database transaction is READ COMMITTED with    *)
(* row locks, as PostgreSQL runs it.                                       *)
(***************************************************************************)
EXTENDS Integers, Sequences, FiniteSets, TLC

VARIABLES
    trained_models,   \* committed rows of table trained_models (row id = index)
    training_data,    \* committed rows of table training_data
    prediction_logs,  \* committed rows of table prediction_logs
    redis,            \* Redis: key -> NoEntry or [value, ttl]
    fit,              \* fit_model calls in flight, one per training worker
    pred,             \* predict calls in flight, one per inference worker
    returned,         \* history: version tags answered with 200 by fit, in order
    age,              \* history: seconds since the last commit of a series,
                      \* counted up to MaxAge
    mon,              \* monitoring calls in flight, one per monitoring worker
    store_up          \* the database accepts connections and statements

vars == <<trained_models, training_data, prediction_logs, redis, fit, pred,
          returned, age, mon, store_up>>

-----------------------------------------------------------------------------
(* Bounds and inputs *)

MaxRows == 3
MaxLogs == 1

Series == {"s1", "s2"}
FitProcs == {"f1", "f2"}
PredProcs == {"p1"}
MonProcs == {"m1"}

MODEL_TTL == 3600
PRED_TTL == 300
TickSeconds == PRED_TTL \div 3
MaxAge == MODEL_TTL + TickSeconds

\* float("nan"), which JSON bodies carry as the token NaN: a number that no
\* finite sample of the model takes
NaN == 0 - 1

TsChoices == {<<1>>, <<1, 2>>, <<2, 1>>, <<1, 2, 3, 4>>}
ValChoices ==
    {<<0, 2>>, <<2, 6>>, <<2, 2>>, <<4>>, <<0, 0, 2, 2>>, <<0, NaN>>}
ThrChoices == {3, 1, 0}

\* bodies of POST /fit: AnomalyTrainRequest
TrainRequests ==
    [timestamps : TsChoices, values : ValChoices, threshold : ThrChoices]

\* the requests of racing trainers: two different valid samples and a
\* constant one
RaceRequests ==
    {r \in TrainRequests :
        /\ r.timestamps = <<1, 2>>
        /\ \/ r.threshold = 3 /\ r.values \in {<<0, 2>>, <<2, 2>>}
           \/ r.threshold = 1 /\ r.values = <<2, 6>>}

\* the inputs of the classification: thresholds, and the bodies of the fit
\* that trained the model the values are classified with
Thresholds == 0..4

ClassifyRequests ==
    [timestamps : {<<1, 2>>}, values : {<<0, 2>>, <<2, 6>>},
     threshold : Thresholds \ {4}]

ClassifyValues == 0..9

\* bodies of POST /predict: AnomalyPredictRequest (timestamp is a string)
PredTimestamps == {<<"5">>, <<"x">>}
PredValues == {1, 9}

-----------------------------------------------------------------------------
(* Version tags: f"v{n}" and int(model_version[1:]) *)

DigitChars == <<"0", "1", "2", "3", "4", "5", "6", "7", "8", "9">>

RECURSIVE Decimal(_)
Decimal(n) ==
    IF n < 10 THEN <<DigitChars[n + 1]>>
    ELSE Decimal(n \div 10) \o <<DigitChars[(n % 10) + 1]>>

FormatVersion(n) == <<"v">> \o Decimal(n)

IsDigit(c) == \E i \in 1..10 : DigitChars[i] = c

DigitValue(c) == (CHOOSE i \in 1..10 : DigitChars[i] = c) - 1

RECURSIVE DecimalValue(_)
DecimalValue(s) ==
    IF Len(s) = 1 THEN DigitValue(s[1])
    ELSE 10 * DecimalValue(SubSeq(s, 1, Len(s) - 1)) + DigitValue(s[Len(s)])

\* int(text) succeeds
IntParses(s) == Len(s) > 0 /\ \A i \in 1..Len(s) : IsDigit(s[i])

\* the number a version tag contributes to max_version_num (0: skipped)
ParseVersion(tag) ==
    IF Len(tag) > 0 /\ tag[1] = "v" /\ IntParses(Tail(tag))
    THEN DecimalValue(Tail(tag))
    ELSE 0

-----------------------------------------------------------------------------
(* Statistic engine *)

RECURSIVE SumSeq(_)
SumSeq(s) == IF s = <<>> THEN 0 ELSE Head(s) + SumSeq(Tail(s))

ISqrt(n) == CHOOSE r \in 0..n : r * r <= n /\ (r + 1) * (r + 1) > n

HasNaN(values) == \E i \in 1..Len(values) : values[i] = NaN

\* float(np.mean(values)): NaN as soon as one value is NaN
NpMean(values) ==
    IF HasNaN(values) THEN NaN ELSE SumSeq(values) \div Len(values)

\* float(np.std(values)), the population standard deviation
NpStd(values) ==
    IF HasNaN(values) THEN NaN
    ELSE LET m == NpMean(values)
             sq == [i \in 1..Len(values) |->
                      (values[i] - m) * (values[i] - m)]
         IN ISqrt(SumSeq(sq) \div Len(values))

Abs(x) == IF x < 0 THEN -x ELSE x

\* the comparison is made the other way round
IsAnomalyBelow(value, mean, std, threshold) ==
    Abs(value - mean) < threshold * std

\* deviation = abs(value - mean) / std; deviation > threshold (std > 0)
IsAnomaly(value, mean, std, threshold) ==
    Abs(value - mean) > threshold * std

\* the order of the timestamps is not checked
IsSortedUnchecked(ts) == TRUE

\* timestamps == sorted(timestamps)
IsSorted(ts) == \A i \in 1..(Len(ts) - 1) : ts[i] <= ts[i + 1]

\* request.to_time_series(): TimeSeries.from_lists and the data validator
ToTimeSeriesOk(req) ==
    /\ Len(req.timestamps) = Len(req.values)
    /\ Len(req.timestamps) > 0
    /\ IsSorted(req.timestamps)

\* len(set(values)): a NaN equals no other value, not even another NaN
DistinctValues(values) ==
    Cardinality({values[i] : i \in {j \in 1..Len(values) :
                                      values[j] # NaN}})
        + Cardinality({j \in 1..Len(values) : values[j] = NaN})

\* validate_for_training(min_points=2)
ValidateForTraining(values) ==
    /\ Len(values) >= 2
    /\ DistinctValues(values) # 1

\* neither the sample nor its deviation is checked
ModelFitOkUnchecked(values) == TRUE

\* model.fit(time_series) returns without raising ValueError
ModelFitOk(values) == ValidateForTraining(values) /\ NpStd(values) # 0

FitAccepts(req) == ToTimeSeriesOk(req) /\ ModelFitOk(req.values)

-----------------------------------------------------------------------------
(* Store queries *)

NoEntry == [none |-> TRUE]
NoModel == [none |-> TRUE]

RowIds(s) == {i \in 1..Len(trained_models) : trained_models[i].series_id = s}

ActiveIds(s) == {i \in RowIds(s) : trained_models[i].is_active}

RECURSIVE MaxOf(_)
MaxOf(S) ==
    IF S = {} THEN 0
    ELSE LET x == CHOOSE y \in S : TRUE
             m == MaxOf(S \ {x})
         IN IF x > m THEN x ELSE m

\* max_version_num over all_versions, then + 1
NextVersionNum(ids) ==
    MaxOf({ParseVersion(trained_models[i].model_version) : i \in ids}) + 1

\* uq_series_version dropped from the table
UniqueViolationAbsent(s, tag) == FALSE

\* the constraint is on model_version alone
UniqueViolationAnySeries(s, tag) ==
    \E i \in 1..Len(trained_models) : trained_models[i].model_version = tag

\* uq_series_version
UniqueViolation(s, tag) ==
    \E i \in RowIds(s) : trained_models[i].model_version = tag

\* rows another open transaction has updated and therefore locked
LockedByOthers(p) == UNION {fit[o].deact : o \in FitProcs \ {p}}

-----------------------------------------------------------------------------
(* Training service: fit_model *)

NoReq == [none |-> TRUE]
NoResp == [none |-> TRUE]

IdleFit ==
    [pc |-> "idle", series_id |-> "", req |-> NoReq, all_versions |-> {},
     model |-> NoModel, model_version |-> <<>>, snapshot |-> {}, deact |-> {},
     updated |-> FALSE, seen |-> 0, outage |-> FALSE, status |-> 0,
     cause |-> "", resp |-> NoResp]

FitFree(p) == fit[p].pc \in {"idle", "done"}

\* the object the name `model` is bound to after the loop over all_versions:
\* the fitted AnomalyDetectionModel when the loop body never ran, otherwise
\* the last TrainedModel row of the unordered query result
ModelAfterLoop(req, ids) ==
    IF ids = {}
    THEN {[mean |-> NpMean(req.values), std |-> NpStd(req.values),
           threshold |-> req.threshold]}
    ELSE {[mean |-> trained_models[i].mean, std |-> trained_models[i].std,
           threshold |-> trained_models[i].threshold] : i \in ids}

\* lines 32-41 raise ValueError: answered 422, the store is not touched
FitReject(p, s, req) ==
    /\ FitFree(p)
    /\ ~FitAccepts(req)
    /\ fit' = [fit EXCEPT ![p] =
                 [IdleFit EXCEPT !.pc = "done", !.series_id = s, !.req = req,
                                 !.outage = ~store_up,
                                 !.status = 422, !.cause = "validation"]]
    /\ UNCHANGED <<trained_models, training_data, prediction_logs, redis,
                   pred, returned, age, mon, store_up>>

\* lines 32-57: the model is fitted, all versions of the series are read and
\* the next version tag is computed
FitQuery(p, s, req) ==
    /\ FitFree(p)
    /\ store_up
    /\ FitAccepts(req)
    /\ Len(trained_models) < MaxRows
    /\ \E m \in ModelAfterLoop(req, RowIds(s)) :
         fit' = [fit EXCEPT ![p] =
                   [IdleFit EXCEPT !.pc = "update", !.series_id = s,
                                   !.req = req, !.all_versions = RowIds(s),
                                   !.model = m,
                                   !.model_version =
                                       FormatVersion(NextVersionNum(RowIds(s))),
                                   !.seen = Len(returned[s])]]
    /\ UNCHANGED <<trained_models, training_data, prediction_logs, redis,
                   pred, returned, age, mon, store_up>>

\* lines 84-88, `if all_versions` false: no UPDATE is issued
FitSkipDeactivate(p) ==
    /\ fit[p].pc = "update"
    /\ fit[p].all_versions = {}
    /\ fit' = [fit EXCEPT ![p].pc = "commit"]
    /\ UNCHANGED <<trained_models, training_data, prediction_logs, redis,
                   pred, returned, age, mon, store_up>>

\* the UPDATE matches no row
FitDeactivateOmitted(p) ==
    /\ fit[p].pc = "update"
    /\ store_up
    /\ fit[p].all_versions # {}
    /\ fit' = [fit EXCEPT ![p].pc = "commit", ![p].updated = TRUE]
    /\ UNCHANGED <<trained_models, training_data, prediction_logs, redis,
                   pred, returned, age, mon, store_up>>

\* lines 84-88: UPDATE ... SET is_active = false on the active rows of the
\* series; the rows stay locked until the transaction ends
FitDeactivate(p) ==
    /\ fit[p].pc = "update"
    /\ store_up
    /\ fit[p].all_versions # {}
    /\ ActiveIds(fit[p].series_id) \cap LockedByOthers(p) = {}
    /\ fit' = [fit EXCEPT ![p].pc = "commit",
                          ![p].deact = ActiveIds(fit[p].series_id),
                          ![p].updated = TRUE]
    /\ UNCHANGED <<trained_models, training_data, prediction_logs, redis,
                   pred, returned, age, mon, store_up>>

\* the UPDATE finds a row locked by another open transaction and waits
FitDeactivateWait(p) ==
    /\ fit[p].pc = "update"
    /\ store_up
    /\ fit[p].all_versions # {}
    /\ ActiveIds(fit[p].series_id) \cap LockedByOthers(p) # {}
    /\ fit' = [fit EXCEPT ![p].pc = "update_wait",
                          ![p].snapshot = ActiveIds(fit[p].series_id),
                          ![p].updated = TRUE]
    /\ UNCHANGED <<trained_models, training_data, prediction_logs, redis,
                   pred, returned, age, mon, store_up>>

\* the lock is released: the waiting UPDATE re-checks the rows of its
\* snapshot and updates those that are still active
FitDeactivateResume(p) ==
    /\ fit[p].pc = "update_wait"
    /\ store_up
    /\ fit[p].snapshot \cap LockedByOthers(p) = {}
    /\ fit' = [fit EXCEPT ![p].pc = "commit",
                          ![p].snapshot = {},
                          ![p].deact = {i \in fit[p].snapshot :
                                          trained_models[i].is_active}]
    /\ UNCHANGED <<trained_models, training_data, prediction_logs, redis,
                   pred, returned, age, mon, store_up>>

\* the new row is inserted with is_active = false
NewTrainedModelInactive(f) ==
    [series_id |-> f.series_id, mean |-> f.model.mean, std |-> f.model.std,
     threshold |-> f.model.threshold, model_version |-> f.model_version,
     training_points |-> Len(f.req.timestamps), is_active |-> FALSE]

\* lines 71-81
NewTrainedModel(f) ==
    [series_id |-> f.series_id, mean |-> f.model.mean, std |-> f.model.std,
     threshold |-> f.model.threshold, model_version |-> f.model_version,
     training_points |-> Len(f.req.timestamps), is_active |-> TRUE]

\* the sample is filed under the first version tag
NewTrainingDataFirstTag(f) ==
    [series_id |-> f.series_id, model_version |-> FormatVersion(1),
     timestamps |-> f.req.timestamps, values |-> f.req.values,
     data_points_count |-> Len(f.req.timestamps)]

\* the values of the sample are stored last first
NewTrainingDataReversed(f) ==
    [series_id |-> f.series_id, model_version |-> f.model_version,
     timestamps |-> f.req.timestamps,
     values |-> [i \in 1..Len(f.req.values) |->
                   f.req.values[Len(f.req.values) + 1 - i]],
     data_points_count |-> Len(f.req.timestamps)]

\* lines 93-99
NewTrainingData(f) ==
    [series_id |-> f.series_id, model_version |-> f.model_version,
     timestamps |-> f.req.timestamps, values |-> f.req.values,
     data_points_count |-> Len(f.req.timestamps)]

\* the commit also switches the older inactive rows of the series back on
CommittedModelsReactivating(f) ==
    Append([i \in 1..Len(trained_models) |->
              IF i \in f.deact
              THEN [trained_models[i] EXCEPT !.is_active = FALSE]
              ELSE IF trained_models[i].series_id = f.series_id
                   THEN [trained_models[i] EXCEPT !.is_active = TRUE]
                   ELSE trained_models[i]],
           NewTrainedModel(f))

\* the table after the transaction's UPDATE and INSERT are committed
CommittedModels(f) ==
    Append([i \in 1..Len(trained_models) |->
              IF i \in f.deact
              THEN [trained_models[i] EXCEPT !.is_active = FALSE]
              ELSE trained_models[i]],
           NewTrainedModel(f))

\* the JSON columns training_data.values and training_data_stats take the
\* text json.dumps writes; PostgreSQL rejects the token NaN in it
JsonStorable(values) == ~HasNaN(values)


\* the commit also deletes the model-cache entry of the series
FitCommitInvalidates(p) ==
    /\ fit[p].pc = "commit"
    /\ store_up
    /\ ~UniqueViolation(fit[p].series_id, fit[p].model_version)
    /\ JsonStorable(fit[p].req.values)
    /\ trained_models' = CommittedModels(fit[p])
    /\ training_data' = Append(training_data, NewTrainingData(fit[p]))
    /\ redis' = [redis EXCEPT ![<<"model", fit[p].series_id>>] = NoEntry]
    /\ returned' = [returned EXCEPT ![fit[p].series_id] =
                       Append(@, fit[p].model_version)]
    /\ age' = [age EXCEPT ![fit[p].series_id] = 0]
    /\ fit' = [fit EXCEPT ![p].pc = "done", ![p].all_versions = {},
                          ![p].deact = {}, ![p].status = 200,
                          ![p].resp = [series_id |-> fit[p].series_id,
                                       model_version |-> fit[p].model_version,
                                       points_used |->
                                           Len(fit[p].req.timestamps)]]
    /\ UNCHANGED <<prediction_logs, pred, mon, store_up>>

\* lines 90-111: db.commit() flushes both INSERTs and commits
FitCommit(p) ==
    /\ fit[p].pc = "commit"
    /\ store_up
    /\ ~UniqueViolation(fit[p].series_id, fit[p].model_version)
    /\ JsonStorable(fit[p].req.values)
    /\ trained_models' = CommittedModels(fit[p])
    /\ training_data' = Append(training_data, NewTrainingData(fit[p]))
    /\ returned' = [returned EXCEPT ![fit[p].series_id] =
                       Append(@, fit[p].model_version)]
    /\ age' = [age EXCEPT ![fit[p].series_id] = 0]
    /\ fit' = [fit EXCEPT ![p].pc = "done", ![p].all_versions = {},
                          ![p].deact = {}, ![p].status = 200,
                          ![p].resp = [series_id |-> fit[p].series_id,
                                       model_version |-> fit[p].model_version,
                                       points_used |->
                                           Len(fit[p].req.timestamps)]]
    /\ UNCHANGED <<prediction_logs, redis, pred, mon, store_up>>

\* the UPDATE of the failed transaction stays applied
FitConflictKeepsUpdate(p) ==
    /\ fit[p].pc = "commit"
    /\ store_up
    /\ UniqueViolation(fit[p].series_id, fit[p].model_version)
    /\ trained_models' =
         [i \in 1..Len(trained_models) |->
            IF i \in fit[p].deact
            THEN [trained_models[i] EXCEPT !.is_active = FALSE]
            ELSE trained_models[i]]
    /\ fit' = [fit EXCEPT ![p].pc = "done", ![p].all_versions = {},
                          ![p].deact = {}, ![p].status = 500,
                          ![p].cause = "conflict"]
    /\ UNCHANGED <<training_data, prediction_logs, redis, pred, returned,
                   age, mon, store_up>>

\* lines 121-123: the INSERT violates uq_series_version (IntegrityError);
\* the transaction is rolled back and the call is answered 500
FitConflict(p) ==
    /\ fit[p].pc = "commit"
    /\ store_up
    /\ UniqueViolation(fit[p].series_id, fit[p].model_version)
    /\ fit' = [fit EXCEPT ![p].pc = "done", ![p].all_versions = {},
                          ![p].deact = {}, ![p].status = 500,
                          ![p].cause = "conflict"]
    /\ UNCHANGED <<trained_models, training_data, prediction_logs, redis,
                   pred, returned, age, mon, store_up>>

\* lines 102, 121-123: the INSERTs carry a NaN in a JSON column (DataError);
\* the transaction is rolled back and the call is answered 500
FitDataError(p) ==
    /\ fit[p].pc = "commit"
    /\ store_up
    /\ ~JsonStorable(fit[p].req.values)
    /\ fit' = [fit EXCEPT ![p].pc = "done", ![p].all_versions = {},
                          ![p].deact = {}, ![p].status = 500,
                          ![p].cause = "data"]
    /\ UNCHANGED <<trained_models, training_data, prediction_logs, redis,
                   pred, returned, age, mon, store_up>>

\* the failed transaction is not rolled back: its UPDATE stays applied
FitStorageErrorKeepsUpdate(p) ==
    /\ fit[p].pc = "commit"
    /\ trained_models' =
         [i \in 1..Len(trained_models) |->
            IF i \in fit[p].deact
            THEN [trained_models[i] EXCEPT !.is_active = FALSE]
            ELSE trained_models[i]]
    /\ fit' = [fit EXCEPT ![p].pc = "done", ![p].all_versions = {},
                          ![p].deact = {}, ![p].status = 500,
                          ![p].cause = "storage"]
    /\ UNCHANGED <<training_data, prediction_logs, redis, pred, returned,
                   age, mon, store_up>>

\* lines 121-123: db.commit() raises for another reason (storage error)
FitStorageError(p) ==
    /\ fit[p].pc = "commit"
    /\ fit' = [fit EXCEPT ![p].pc = "done", ![p].all_versions = {},
                          ![p].deact = {}, ![p].status = 500,
                          ![p].cause = "storage"]
    /\ UNCHANGED <<trained_models, training_data, prediction_logs, redis,
                   pred, returned, age, mon, store_up>>

\* lines 43-45, 121-123: the database is unreachable, the first query raises
\* OperationalError and the call is answered 500
FitQueryDown(p, s, req) ==
    /\ FitFree(p)
    /\ FitAccepts(req)
    /\ ~store_up
    /\ fit' = [fit EXCEPT ![p] =
                 [IdleFit EXCEPT !.pc = "done", !.series_id = s, !.req = req,
                                 !.outage = TRUE,
                                 !.status = 500, !.cause = "storage"]]
    /\ UNCHANGED <<trained_models, training_data, prediction_logs, redis,
                   pred, returned, age, mon, store_up>>

\* lines 84-88, 121-123: the database went away before the UPDATE, which
\* raises; the call is answered 500
FitUpdateDown(p) ==
    /\ fit[p].pc \in {"update", "update_wait"}
    /\ fit[p].all_versions # {}
    /\ ~store_up
    /\ fit' = [fit EXCEPT ![p].pc = "done", ![p].all_versions = {},
                          ![p].snapshot = {}, ![p].deact = {},
                          ![p].status = 500, ![p].cause = "storage"]
    /\ UNCHANGED <<trained_models, training_data, prediction_logs, redis,
                   pred, returned, age, mon, store_up>>

-----------------------------------------------------------------------------
(* Inference service: predict *)

\* f"model:{series_id}" and f"prediction:{series_id}:{request.timestamp}"
ModelKey(s) == <<"model", s>>
PredictionKey(s, ts) == <<"prediction", s, ts>>

Keys ==
    {ModelKey(s) : s \in Series}
        \cup {PredictionKey(s, ts) : s \in Series, ts \in PredTimestamps}

IdlePred ==
    [pc |-> "idle", series_id |-> "", timestamp |-> <<>>, value |-> 0,
     model_params |-> NoModel, source |-> "", row |-> 0, log_id |-> 0,
     late |-> FALSE, seen |-> 0, latest |-> 0, logs_before |-> 0,
     outage |-> FALSE, status |-> 0, cause |-> "", resp |-> NoResp]

PredFree(q) == pred[q].pc \in {"idle", "done"}

PredBusy == {q \in PredProcs : ~PredFree(q)}

\* redis_client.setex(key, ttl, value)
Setex(key, ttl, value) ==
    [redis EXCEPT ![key] = [value |-> value, ttl |-> ttl]]

\* the cached answer is logged like a computed one
PredCachedLogged(q, s, ts, v) ==
    /\ PredFree(q)
    /\ redis[PredictionKey(s, ts)] # NoEntry
    /\ prediction_logs' =
         Append(prediction_logs,
                [series_id |-> s, timestamp |-> DecimalValue(ts),
                 value |-> v,
                 prediction |-> redis[PredictionKey(s, ts)].value.anomaly,
                 model_version |->
                     redis[PredictionKey(s, ts)].value.model_version,
                 latency_set |-> TRUE])
    /\ pred' = [pred EXCEPT ![q] =
                  [IdlePred EXCEPT !.pc = "done", !.series_id = s,
                                   !.timestamp = ts, !.value = v,
                                   !.source = "prediction_cache",
                                   !.late = age[s] > MODEL_TTL,
                                   !.seen = Len(returned[s]),
                                   !.latest = Len(returned[s]),
                                   !.logs_before = Len(prediction_logs),
                                   !.outage = ~store_up,
                                   !.status = 200,
                                   !.resp = redis[PredictionKey(s, ts)].value]]
    /\ UNCHANGED <<trained_models, training_data, redis, fit, returned, age,
                   mon, store_up>>

\* lines 44-50: the prediction cache holds an answer for this series and
\* timestamp; it is returned as it is
PredCached(q, s, ts, v) ==
    /\ PredFree(q)
    /\ redis[PredictionKey(s, ts)] # NoEntry
    /\ pred' = [pred EXCEPT ![q] =
                  [IdlePred EXCEPT !.pc = "done", !.series_id = s,
                                   !.timestamp = ts, !.value = v,
                                   !.source = "prediction_cache",
                                   !.late = age[s] > MODEL_TTL,
                                   !.seen = Len(returned[s]),
                                   !.latest = Len(returned[s]),
                                   !.logs_before = Len(prediction_logs),
                                   !.outage = ~store_up,
                                   !.status = 200,
                                   !.resp = redis[PredictionKey(s, ts)].value]]
    /\ UNCHANGED <<trained_models, training_data, prediction_logs, redis,
                   fit, returned, age, mon, store_up>>

\* lines 46, 139-140: Redis is unreachable, redis_client.get raises and the
\* call is answered 500
PredCacheDown(q, s, ts, v) ==
    /\ PredFree(q)
    /\ pred' = [pred EXCEPT ![q] =
                  [IdlePred EXCEPT !.pc = "done", !.series_id = s,
                                   !.timestamp = ts, !.value = v,
                                   !.late = age[s] > MODEL_TTL,
                                   !.seen = Len(returned[s]),
                                   !.latest = Len(returned[s]),
                                   !.logs_before = Len(prediction_logs),
                                   !.outage = ~store_up,
                                   !.status = 500, !.cause = "cache"]]
    /\ UNCHANGED <<trained_models, training_data, prediction_logs, redis,
                   fit, returned, age, mon, store_up>>

\* lines 44-48: no cached prediction
PredUncached(q, s, ts, v) ==
    /\ PredFree(q)
    /\ Len(prediction_logs) + Cardinality(PredBusy) < MaxLogs
    /\ redis[PredictionKey(s, ts)] = NoEntry
    /\ pred' = [pred EXCEPT ![q] =
                  [IdlePred EXCEPT !.pc = "model_cache", !.series_id = s,
                                   !.timestamp = ts, !.value = v,
                                   !.late = age[s] > MODEL_TTL,
                                   !.seen = Len(returned[s]),
                                   !.logs_before = Len(prediction_logs),
                                   !.outage = ~store_up]]
    /\ UNCHANGED <<trained_models, training_data, prediction_logs, redis,
                   fit, returned, age, mon, store_up>>

\* lines 52-58: the model cache holds the parameters
PredModelHit(q) ==
    /\ pred[q].pc = "model_cache"
    /\ redis[ModelKey(pred[q].series_id)] # NoEntry
    /\ pred' = [pred EXCEPT ![q].pc = "score",
                            ![q].source = "model_cache",
                            ![q].model_params =
                                redis[ModelKey(pred[q].series_id)].value]
    /\ UNCHANGED <<trained_models, training_data, prediction_logs, redis,
                   fit, returned, age, mon, store_up>>

\* lines 52-59: model cache miss
PredModelMiss(q) ==
    /\ pred[q].pc = "model_cache"
    /\ redis[ModelKey(pred[q].series_id)] = NoEntry
    /\ pred' = [pred EXCEPT ![q].pc = "db"]
    /\ UNCHANGED <<trained_models, training_data, prediction_logs, redis,
                   fit, returned, age, mon, store_up>>

\* mean and std read from each other's column
ParamsOfRowSwapped(r) ==
    [mean |-> r.std, std |-> r.mean, threshold |-> r.threshold,
     model_version |-> r.model_version]

\* lines 73-78
ParamsOfRow(r) ==
    [mean |-> r.mean, std |-> r.std, threshold |-> r.threshold,
     model_version |-> r.model_version]

\* the query lacks the is_active filter
PredDbHitAnyRow(q) ==
    /\ pred[q].pc = "db"
    /\ store_up
    /\ \E i \in RowIds(pred[q].series_id) :
         pred' = [pred EXCEPT ![q].pc = "put_model", ![q].source = "db",
                              ![q].row = i,
                              ![q].model_params =
                                  ParamsOfRow(trained_models[i])]
    /\ UNCHANGED <<trained_models, training_data, prediction_logs, redis,
                   fit, returned, age, mon, store_up>>

\* lines 61-78: the active row of the series is read from the store
PredDbHit(q) ==
    /\ pred[q].pc = "db"
    /\ store_up
    /\ \E i \in ActiveIds(pred[q].series_id) :
         pred' = [pred EXCEPT ![q].pc = "put_model", ![q].source = "db",
                              ![q].row = i,
                              ![q].model_params =
                                  ParamsOfRow(trained_models[i])]
    /\ UNCHANGED <<trained_models, training_data, prediction_logs, redis,
                   fit, returned, age, mon, store_up>>

\* the miss is recorded as a prediction
PredDbMissLogged(q) ==
    /\ pred[q].pc = "db"
    /\ store_up
    /\ ActiveIds(pred[q].series_id) = {}
    /\ prediction_logs' =
         Append(prediction_logs,
                [series_id |-> pred[q].series_id, timestamp |-> 0,
                 value |-> pred[q].value, prediction |-> FALSE,
                 model_version |-> <<>>, latency_set |-> FALSE])
    /\ pred' = [pred EXCEPT ![q].pc = "done", ![q].status = 404,
                            ![q].cause = "not_found"]
    /\ UNCHANGED <<trained_models, training_data, redis, fit, returned, age,
                   mon, store_up>>

\* lines 66-70: no active row, answered 404
PredDbMiss(q) ==
    /\ pred[q].pc = "db"
    /\ store_up
    /\ ActiveIds(pred[q].series_id) = {}
    /\ pred' = [pred EXCEPT ![q].pc = "done", ![q].status = 404,
                            ![q].cause = "not_found"]
    /\ UNCHANGED <<trained_models, training_data, prediction_logs, redis,
                   fit, returned, age, mon, store_up>>

\* the failed read is taken for an empty result
PredDbDownNotFound(q) ==
    /\ pred[q].pc = "db"
    /\ ~store_up
    /\ pred' = [pred EXCEPT ![q].pc = "done", ![q].status = 404,
                            ![q].cause = "not_found"]
    /\ UNCHANGED <<trained_models, training_data, prediction_logs, redis,
                   fit, returned, age, mon, store_up>>

\* lines 61-64, 139-140: the database is unreachable, the query raises and
\* the call is answered 500
PredDbDown(q) ==
    /\ pred[q].pc = "db"
    /\ ~store_up
    /\ pred' = [pred EXCEPT ![q].pc = "done", ![q].status = 500,
                            ![q].cause = "storage"]
    /\ UNCHANGED <<trained_models, training_data, prediction_logs, redis,
                   fit, returned, age, mon, store_up>>

\* the entry is written with a mean of zero
PredPutModelZeroMean(q) ==
    /\ pred[q].pc = "put_model"
    /\ redis' = Setex(ModelKey(pred[q].series_id), MODEL_TTL,
                      [pred[q].model_params EXCEPT !.mean = 0])
    /\ pred' = [pred EXCEPT ![q].pc = "score"]
    /\ UNCHANGED <<trained_models, training_data, prediction_logs, fit,
                   returned, age, mon, store_up>>

\* lines 80-85: the parameters read from the store are cached for one hour
PredPutModel(q) ==
    /\ pred[q].pc = "put_model"
    /\ redis' = Setex(ModelKey(pred[q].series_id), MODEL_TTL,
                      pred[q].model_params)
    /\ pred' = [pred EXCEPT ![q].pc = "score"]
    /\ UNCHANGED <<trained_models, training_data, prediction_logs, fit,
                   returned, age, mon, store_up>>

\* lines 95, 139-140: int(request.timestamp) raises ValueError, answered 500
PredBadTimestamp(q) ==
    /\ pred[q].pc = "score"
    /\ ~IntParses(pred[q].timestamp)
    /\ pred' = [pred EXCEPT ![q].pc = "done", ![q].status = 500,
                            ![q].cause = "timestamp"]
    /\ UNCHANGED <<trained_models, training_data, prediction_logs, redis,
                   fit, returned, age, mon, store_up>>

\* lines 87-103: predict_with_details on the request's value
Classify(q) ==
    [anomaly |-> IsAnomaly(pred[q].value, pred[q].model_params.mean,
                           pred[q].model_params.std,
                           pred[q].model_params.threshold),
     model_version |-> pred[q].model_params.model_version]

\* lines 100-103, 139-140: model_params["model_version"] raises KeyError on
\* an entry that has no such key, answered 500
PredKeyError(q) ==
    /\ pred[q].pc = "score"
    /\ IntParses(pred[q].timestamp)
    /\ "model_version" \notin DOMAIN pred[q].model_params
    /\ pred' = [pred EXCEPT ![q].pc = "done", ![q].status = 500,
                            ![q].cause = "key"]
    /\ UNCHANGED <<trained_models, training_data, prediction_logs, redis,
                   fit, returned, age, mon, store_up>>

\* the log row is added twice
PredLogTwice(q) ==
    /\ pred[q].pc = "score"
    /\ store_up
    /\ IntParses(pred[q].timestamp)
    /\ "model_version" \in DOMAIN pred[q].model_params
    /\ LET row == [series_id |-> pred[q].series_id,
                   timestamp |-> DecimalValue(pred[q].timestamp),
                   value |-> pred[q].value,
                   prediction |-> Classify(q).anomaly,
                   model_version |-> Classify(q).model_version,
                   latency_set |-> FALSE]
       IN prediction_logs' = prediction_logs \o <<row, row>>
    /\ pred' = [pred EXCEPT ![q].pc = "log_update",
                            ![q].log_id = Len(prediction_logs) + 2,
                            ![q].resp = Classify(q)]
    /\ UNCHANGED <<trained_models, training_data, redis, fit, returned, age,
                   mon, store_up>>

\* lines 87-119: the value is classified and the prediction is logged
PredLog(q) ==
    /\ pred[q].pc = "score"
    /\ store_up
    /\ IntParses(pred[q].timestamp)
    /\ "model_version" \in DOMAIN pred[q].model_params
    /\ prediction_logs' =
         Append(prediction_logs,
                [series_id |-> pred[q].series_id,
                 timestamp |-> DecimalValue(pred[q].timestamp),
                 value |-> pred[q].value,
                 prediction |-> Classify(q).anomaly,
                 model_version |-> Classify(q).model_version,
                 latency_set |-> FALSE])
    /\ pred' = [pred EXCEPT ![q].pc = "log_update",
                            ![q].log_id = Len(prediction_logs) + 1,
                            ![q].resp = Classify(q)]
    /\ UNCHANGED <<trained_models, training_data, redis, fit, returned, age,
                   mon, store_up>>

\* lines 118-119, 139-140: the commit of the log row raises, answered 500
PredLogError(q) ==
    /\ pred[q].pc = "score"
    /\ IntParses(pred[q].timestamp)
    /\ "model_version" \in DOMAIN pred[q].model_params
    /\ pred' = [pred EXCEPT ![q].pc = "done", ![q].status = 500,
                            ![q].cause = "log"]
    /\ UNCHANGED <<trained_models, training_data, prediction_logs, redis,
                   fit, returned, age, mon, store_up>>

\* the second commit also overwrites the logged outcome
PredLogUpdateRewrites(q) ==
    /\ pred[q].pc = "log_update"
    /\ store_up
    /\ prediction_logs' =
         [prediction_logs EXCEPT ![pred[q].log_id].latency_set = TRUE,
                                 ![pred[q].log_id].prediction = ~@]
    /\ pred' = [pred EXCEPT ![q].pc = "put_prediction"]
    /\ UNCHANGED <<trained_models, training_data, redis, fit, returned, age,
                   mon, store_up>>

\* lines 120-126: the latencies are written to the logged row
PredLogUpdate(q) ==
    /\ pred[q].pc = "log_update"
    /\ store_up
    /\ prediction_logs' =
         [prediction_logs EXCEPT ![pred[q].log_id].latency_set = TRUE]
    /\ pred' = [pred EXCEPT ![q].pc = "put_prediction"]
    /\ UNCHANGED <<trained_models, training_data, redis, fit, returned, age,
                   mon, store_up>>

\* lines 124-126, 139-140: the database went away after the row was
\* inserted; the second commit raises and the call is answered 500
PredLogUpdateDown(q) ==
    /\ pred[q].pc = "log_update"
    /\ ~store_up
    /\ pred' = [pred EXCEPT ![q].pc = "done", ![q].status = 500,
                            ![q].cause = "log"]
    /\ UNCHANGED <<trained_models, training_data, prediction_logs, redis,
                   fit, returned, age, mon, store_up>>

\* the response is cached for as long as model parameters are
PredPutPredictionModelTtl(q) ==
    /\ pred[q].pc = "put_prediction"
    /\ redis' = Setex(PredictionKey(pred[q].series_id, pred[q].timestamp),
                      MODEL_TTL, pred[q].resp)
    /\ pred' = [pred EXCEPT ![q].pc = "done", ![q].status = 200,
                            ![q].latest = Len(returned[pred[q].series_id])]
    /\ UNCHANGED <<trained_models, training_data, prediction_logs, fit,
                   returned, age, mon, store_up>>

\* lines 128-135: the response is cached for five minutes and returned
PredPutPrediction(q) ==
    /\ pred[q].pc = "put_prediction"
    /\ redis' = Setex(PredictionKey(pred[q].series_id, pred[q].timestamp),
                      PRED_TTL, pred[q].resp)
    /\ pred' = [pred EXCEPT ![q].pc = "done", ![q].status = 200,
                            ![q].latest = Len(returned[pred[q].series_id])]
    /\ UNCHANGED <<trained_models, training_data, prediction_logs, fit,
                   returned, age, mon, store_up>>

-----------------------------------------------------------------------------
(* Monitoring service: get_plot and get_models *)

\* the version parameter of GET /plot: two tags fit hands out and the one
\* the tests ask for in vain
PlotVersions == {FormatVersion(1), FormatVersion(2), <<"9", "9", ".", "9", "9">>}

IdleMon ==
    [pc |-> "idle", op |-> "", series_id |-> "", version |-> <<>>,
     given |-> FALSE, seen |-> 0, status |-> 0, resp |-> NoResp]

MonFree(m) == mon[m].pc \in {"idle", "done"}

\* the TrainingData rows of a series and version
SampleIds(s, tag) ==
    {j \in 1..Len(training_data) :
        /\ training_data[j].series_id = s
        /\ training_data[j].model_version = tag}

\* zip(timestamps, values) as PlotDataPoint objects
PlotDataPoints(timestamps, values) ==
    [i \in 1..(IF Len(timestamps) < Len(values) THEN Len(timestamps)
                                              ELSE Len(values)) |->
        [timestamp |-> timestamps[i], value |-> values[i],
         is_anomaly |-> FALSE]]

\* lines 64-65: a version is given and becomes the filter
PlotVersion(m, s, tag) ==
    /\ MonFree(m)
    /\ mon' = [mon EXCEPT ![m] =
                 [IdleMon EXCEPT !.pc = "data", !.op = "plot",
                                 !.series_id = s, !.version = tag,
                                 !.given = TRUE,
                                 !.seen = Len(returned[s])]]
    /\ UNCHANGED <<trained_models, training_data, prediction_logs, redis,
                   fit, pred, returned, age, store_up>>

\* the rows are read in ascending order of id
PlotLatestOldest(m, s) ==
    /\ MonFree(m)
    /\ store_up
    /\ RowIds(s) # {}
    /\ LET i == CHOOSE x \in RowIds(s) : \A y \in RowIds(s) : x <= y IN
         mon' = [mon EXCEPT ![m] =
                   [IdleMon EXCEPT !.pc = "data", !.op = "plot",
                                   !.series_id = s,
                                   !.version =
                                       trained_models[i].model_version,
                                   !.seen = Len(returned[s])]]
    /\ UNCHANGED <<trained_models, training_data, prediction_logs, redis,
                   fit, pred, returned, age, store_up>>

\* lines 66-87: no version is given; the row of the series with the highest
\* id names the version
PlotLatest(m, s) ==
    /\ MonFree(m)
    /\ store_up
    /\ RowIds(s) # {}
    /\ mon' = [mon EXCEPT ![m] =
                 [IdleMon EXCEPT !.pc = "data", !.op = "plot",
                                 !.series_id = s,
                                 !.version =
                                     trained_models[MaxOf(RowIds(s))]
                                         .model_version,
                                 !.seen = Len(returned[s])]]
    /\ UNCHANGED <<trained_models, training_data, prediction_logs, redis,
                   fit, pred, returned, age, store_up>>

\* lines 78-83: the series has no row, answered 404
PlotNoModel(m, s) ==
    /\ MonFree(m)
    /\ store_up
    /\ RowIds(s) = {}
    /\ mon' = [mon EXCEPT ![m] =
                 [IdleMon EXCEPT !.pc = "done", !.op = "plot",
                                 !.series_id = s, !.status = 404]]
    /\ UNCHANGED <<trained_models, training_data, prediction_logs, redis,
                   fit, pred, returned, age, store_up>>

\* lines 89-124: the newest TrainingData row of the series and version is
\* returned as data points (stored timestamps and values have one length)
PlotData(m) ==
    /\ mon[m].pc = "data"
    /\ store_up
    /\ SampleIds(mon[m].series_id, mon[m].version) # {}
    /\ LET r == training_data[MaxOf(SampleIds(mon[m].series_id,
                                              mon[m].version))]
           points == PlotDataPoints(r.timestamps, r.values) IN
         /\ Len(r.timestamps) = Len(r.values)
         /\ mon' = [mon EXCEPT ![m].pc = "done", ![m].status = 200,
                               ![m].resp =
                                   [series_id |-> mon[m].series_id,
                                    model_version |-> mon[m].version,
                                    data_points |-> points,
                                    data_points_count |-> Len(points)]]
    /\ UNCHANGED <<trained_models, training_data, prediction_logs, redis,
                   fit, pred, returned, age, store_up>>

\* the missing sample is answered with an empty plot
PlotNoDataEmpty(m) ==
    /\ mon[m].pc = "data"
    /\ store_up
    /\ SampleIds(mon[m].series_id, mon[m].version) = {}
    /\ mon' = [mon EXCEPT ![m].pc = "done", ![m].status = 200,
                          ![m].resp =
                              [series_id |-> mon[m].series_id,
                               model_version |-> mon[m].version,
                               data_points |-> <<>>,
                               data_points_count |-> 0]]
    /\ UNCHANGED <<trained_models, training_data, prediction_logs, redis,
                   fit, pred, returned, age, store_up>>

\* lines 89-92: no TrainingData row of that series and version, answered 404
PlotNoData(m) ==
    /\ mon[m].pc = "data"
    /\ store_up
    /\ SampleIds(mon[m].series_id, mon[m].version) = {}
    /\ mon' = [mon EXCEPT ![m].pc = "done", ![m].status = 404]
    /\ UNCHANGED <<trained_models, training_data, prediction_logs, redis,
                   fit, pred, returned, age, store_up>>

\* the characters of version tags in the order Python compares strings
CharOrder == <<".", "0", "1", "2", "3", "4", "5", "6", "7", "8", "9", "v">>

CharCode(c) == CHOOSE i \in 1..Len(CharOrder) : CharOrder[i] = c

\* a < b for str
RECURSIVE StrLess(_, _)
StrLess(a, b) ==
    IF a = <<>> THEN b # <<>>
    ELSE IF b = <<>> THEN FALSE
    ELSE IF a[1] = b[1] THEN StrLess(Tail(a), Tail(b))
    ELSE CharCode(a[1]) < CharCode(b[1])

\* sorted(versions, reverse=True)
RECURSIVE SortedReverse(_)
SortedReverse(S) ==
    IF S = {} THEN <<>>
    ELSE LET top == CHOOSE x \in S : \A y \in S \ {x} : StrLess(y, x)
         IN <<top>> \o SortedReverse(S \ {top})

\* lines 288-318: the versions of the active rows, grouped by series
ModelsList ==
    LET listed == {s \in Series : ActiveIds(s) # {}} IN
      [s \in listed |->
          SortedReverse({trained_models[i].model_version :
                            i \in ActiveIds(s)})]

\* lines 281-322: GET /models
GetModels(m) ==
    /\ MonFree(m)
    /\ store_up
    /\ mon' = [mon EXCEPT ![m] =
                 [IdleMon EXCEPT !.pc = "done", !.op = "models",
                                 !.status = 200,
                                 !.resp =
                                     [models |-> ModelsList,
                                      total_series |->
                                          Cardinality(DOMAIN ModelsList),
                                      total_models |->
                                          Cardinality(
                                              {i \in 1..Len(trained_models) :
                                                 trained_models[i]
                                                     .is_active})]]]
    /\ UNCHANGED <<trained_models, training_data, prediction_logs, redis,
                   fit, pred, returned, age, store_up>>

-----------------------------------------------------------------------------
(* Redis expiry *)

\* a key reaches the end of its TTL at some moment
Expire(k) ==
    /\ redis[k] # NoEntry
    /\ redis' = [redis EXCEPT ![k] = NoEntry]
    /\ UNCHANGED <<trained_models, training_data, prediction_logs, fit, pred,
                   returned, age, mon, store_up>>

Min(a, b) == IF a < b THEN a ELSE b

\* the database stops accepting connections and statements
StoreFails ==
    /\ store_up
    /\ store_up' = FALSE
    /\ UNCHANGED <<trained_models, training_data, prediction_logs, redis,
                   fit, pred, returned, age, mon>>

\* the database is back; the calls in flight were not served by an
\* unavailable store throughout
StoreRecovers ==
    /\ ~store_up
    /\ store_up' = TRUE
    /\ fit' = [p \in FitProcs |->
                 IF FitFree(p) THEN fit[p]
                 ELSE [fit[p] EXCEPT !.outage = FALSE]]
    /\ pred' = [q \in PredProcs |->
                  IF PredFree(q) THEN pred[q]
                  ELSE [pred[q] EXCEPT !.outage = FALSE]]
    /\ UNCHANGED <<trained_models, training_data, prediction_logs, redis,
                   returned, age, mon>>

\* time passes but no key ever reaches the end of its TTL
ElapseKeepsEntries(d) ==
    /\ age' = [s \in Series |->
                 IF returned[s] = <<>> THEN 0 ELSE Min(age[s] + d, MaxAge)]
    /\ UNCHANGED <<trained_models, training_data, prediction_logs, redis,
                   fit, pred, returned, mon, store_up>>

\* d seconds pass: every key lives that much shorter
Elapse(d) ==
    /\ redis' = [k \in Keys |->
                   IF redis[k] = NoEntry \/ redis[k].ttl <= d
                   THEN NoEntry
                   ELSE [redis[k] EXCEPT !.ttl = @ - d]]
    /\ age' = [s \in Series |->
                 IF returned[s] = <<>> THEN 0 ELSE Min(age[s] + d, MaxAge)]
    /\ UNCHANGED <<trained_models, training_data, prediction_logs, fit, pred,
                   returned, mon, store_up>>

Tick == Elapse(TickSeconds)

-----------------------------------------------------------------------------
(* Specifications *)

Init ==
    /\ trained_models = <<>>
    /\ training_data = <<>>
    /\ prediction_logs = <<>>
    /\ redis = [k \in Keys |-> NoEntry]
    /\ fit = [p \in FitProcs |-> IdleFit]
    /\ pred = [q \in PredProcs |-> IdlePred]
    /\ returned = [s \in Series |-> <<>>]
    /\ age = [s \in Series |-> 0]
    /\ mon = [m \in MonProcs |-> IdleMon]
    /\ store_up = TRUE

FitStep(p) ==
    \/ FitSkipDeactivate(p)
    \/ FitDeactivate(p)
    \/ FitDeactivateWait(p)
    \/ FitDeactivateResume(p)
    \/ FitCommit(p)
    \/ FitConflict(p)
    \/ FitStorageError(p)

\* the steps of a trainer that has no rival: no lock wait, no conflict
SoloFitStep(p) ==
    \/ FitSkipDeactivate(p)
    \/ FitDeactivate(p)
    \/ FitCommit(p)
    \/ FitStorageError(p)

PredStep(q) ==
    \/ PredModelHit(q)
    \/ PredModelMiss(q)
    \/ PredDbHit(q)
    \/ PredDbMiss(q)
    \/ PredPutModel(q)
    \/ PredBadTimestamp(q)
    \/ PredLog(q)
    \/ PredLogError(q)
    \/ PredLogUpdate(q)
    \/ PredPutPrediction(q)

\* concurrent training workers on every series
TrainNext ==
    \/ \E p \in FitProcs, s \in Series, req \in RaceRequests :
         FitReject(p, s, req) \/ FitQuery(p, s, req)
    \/ \E p \in FitProcs : FitStep(p)

SpecTrain == Init /\ [][TrainNext]_vars

\* one series served while it is retrained; keys expire at any moment
Served == {"s1"}
Trainer == {"f1"}

Next ==
    \/ \E p \in Trainer, s \in Served, req \in RaceRequests :
         FitReject(p, s, req) \/ FitQuery(p, s, req)
    \/ \E p \in Trainer : SoloFitStep(p)
    \/ \E q \in PredProcs, s \in Served, ts \in PredTimestamps,
          v \in PredValues :
         PredCached(q, s, ts, v) \/ PredUncached(q, s, ts, v)
    \/ \E q \in PredProcs : PredStep(q)
    \/ \E k \in Keys : Expire(k)

Spec == Init /\ [][Next]_vars

\* one call at a time on one series, each run to its answer, while the clock
\* advances between calls
Quiet == (\A p \in FitProcs : FitFree(p)) /\ (\A q \in PredProcs : PredFree(q))

TimedRequests == {r \in RaceRequests : r.values = <<0, 2>>}
TimedStamps == {<<"5">>}
TimedValues == {9}

\* the calls of the timed specifications
TimedCalls ==
    \/ Quiet /\ \E p \in Trainer, s \in Served, req \in TimedRequests :
                   FitQuery(p, s, req)
    \/ \E p \in Trainer :
         FitSkipDeactivate(p) \/ FitDeactivate(p) \/ FitCommit(p)
    \/ Quiet /\ \E q \in PredProcs, s \in Served, ts \in TimedStamps,
                    v \in TimedValues :
                   PredCached(q, s, ts, v) \/ PredUncached(q, s, ts, v)
    \/ \E q \in PredProcs :
         \/ PredModelHit(q)
         \/ PredModelMiss(q)
         \/ PredDbHit(q)
         \/ PredDbMiss(q)
         \/ PredPutModel(q)
         \/ PredLog(q)
         \/ PredLogError(q)
         \/ PredLogUpdate(q)
         \/ PredPutPrediction(q)

TimedNext == (Quiet /\ Tick) \/ TimedCalls

SpecTimed == Init /\ [][TimedNext]_vars

\* the same calls under a clock that never stops, read every PRED_TTL
\* seconds, and with handlers that run to their answer: whenever no call is
\* in flight time can pass, and it does so again and again
LiveNext == (Quiet /\ Elapse(PRED_TTL)) \/ TimedCalls

SpecLive ==
    /\ Init
    /\ [][LiveNext]_vars
    /\ SF_vars(Quiet /\ Elapse(PRED_TTL))
    /\ \A p \in Trainer :
         WF_vars(FitSkipDeactivate(p) \/ FitDeactivate(p) \/ FitCommit(p))
    /\ \A q \in PredProcs :
         WF_vars(\/ PredModelHit(q) \/ PredModelMiss(q) \/ PredDbHit(q)
                 \/ PredDbMiss(q) \/ PredPutModel(q) \/ PredLog(q)
                 \/ PredLogError(q) \/ PredLogUpdate(q)
                 \/ PredPutPrediction(q))

\* the entry test_predict_with_cached_model puts under model:{series_id}
CachedModelOfTest ==
    [mean |-> 4, std |-> 1, threshold |-> 3, version |-> <<"1", ".", "0">>,
     training_points |-> 100]

\* Redis was filled by that writer before the service is called
InitCached ==
    /\ trained_models = <<>>
    /\ training_data = <<>>
    /\ prediction_logs = <<>>
    /\ redis = [k \in Keys |->
                  IF k \in {ModelKey(s) : s \in Served}
                  THEN [value |-> CachedModelOfTest, ttl |-> MODEL_TTL]
                  ELSE NoEntry]
    /\ fit = [p \in FitProcs |-> IdleFit]
    /\ pred = [q \in PredProcs |-> IdlePred]
    /\ returned = [s \in Series |-> <<>>]
    /\ age = [s \in Series |-> 0]
    /\ mon = [m \in MonProcs |-> IdleMon]
    /\ store_up = TRUE

\* one trainer on one series, with every kind of request body
ValidateNext ==
    \/ \E p \in Trainer, s \in Served, req \in TrainRequests :
         FitReject(p, s, req) \/ FitQuery(p, s, req)
    \/ \E p \in Trainer : SoloFitStep(p) \/ FitDataError(p)

SpecValidate == Init /\ [][ValidateNext]_vars

\* the monitoring service reads the store while one series is trained
MonitorNext ==
    \/ \E p \in Trainer, s \in Served, req \in RaceRequests :
         FitReject(p, s, req) \/ FitQuery(p, s, req)
    \/ \E p \in Trainer : SoloFitStep(p)
    \/ \E m \in MonProcs, s \in Series, tag \in PlotVersions :
         PlotVersion(m, s, tag)
    \/ \E m \in MonProcs, s \in Series :
         PlotLatest(m, s) \/ PlotNoModel(m, s)
    \/ \E m \in MonProcs : PlotData(m) \/ PlotNoData(m) \/ GetModels(m)

SpecMonitor == Init /\ [][MonitorNext]_vars

\* the store after the first fit of the served series, for any of the
\* classification inputs
InitClassify ==
    \E req \in ClassifyRequests :
      LET f == [IdleFit EXCEPT !.series_id = "s1", !.req = req,
                               !.model = [mean |-> NpMean(req.values),
                                          std |-> NpStd(req.values),
                                          threshold |-> req.threshold],
                               !.model_version = FormatVersion(1)] IN
        /\ FitAccepts(req)
        /\ trained_models = <<NewTrainedModel(f)>>
        /\ training_data = <<NewTrainingData(f)>>
        /\ prediction_logs = <<>>
        /\ redis = [k \in Keys |-> NoEntry]
        /\ fit = [p \in FitProcs |-> IdleFit]
        /\ pred = [q \in PredProcs |-> IdlePred]
        /\ returned = [s \in Series |->
                         IF s = "s1" THEN <<FormatVersion(1)>> ELSE <<>>]
        /\ age = [s \in Series |-> 0]
        /\ mon = [m \in MonProcs |-> IdleMon]
        /\ store_up = TRUE

\* values are classified with that model
ClassifyNext ==
    \/ \E q \in PredProcs, s \in Served, ts \in TimedStamps,
          v \in ClassifyValues :
         PredCached(q, s, ts, v) \/ PredUncached(q, s, ts, v)
    \/ \E q \in PredProcs :
         \/ PredModelHit(q)
         \/ PredModelMiss(q)
         \/ PredDbHit(q)
         \/ PredPutModel(q)
         \/ PredLog(q)
         \/ PredLogError(q)
         \/ PredLogUpdate(q)
         \/ PredPutPrediction(q)

SpecClassify == InitClassify /\ [][ClassifyNext]_vars

\* the served series while the database goes away and comes back
OutageNext ==
    \/ \E p \in Trainer, s \in Served, req \in RaceRequests :
         FitReject(p, s, req) \/ FitQuery(p, s, req)
             \/ FitQueryDown(p, s, req)
    \/ \E p \in Trainer : SoloFitStep(p) \/ FitUpdateDown(p)
    \/ \E q \in PredProcs, s \in Served, ts \in TimedStamps,
          v \in PredValues :
         PredCached(q, s, ts, v) \/ PredUncached(q, s, ts, v)
    \/ \E q \in PredProcs :
         \/ PredModelHit(q)
         \/ PredModelMiss(q)
         \/ PredDbHit(q)
         \/ PredDbMiss(q)
         \/ PredDbDown(q)
         \/ PredPutModel(q)
         \/ PredLog(q)
         \/ PredLogError(q)
         \/ PredLogUpdate(q)
         \/ PredLogUpdateDown(q)
         \/ PredPutPrediction(q)
    \/ StoreFails
    \/ StoreRecovers

SpecOutage == Init /\ [][OutageNext]_vars

\* the served series with a cache that holds foreign entries and that can be
\* unreachable for a call
CachedNext ==
    \/ Next
    \/ \E q \in PredProcs : PredKeyError(q)
    \/ \E q \in PredProcs, s \in Served, ts \in PredTimestamps,
          v \in PredValues : PredCacheDown(q, s, ts, v)

SpecCached == InitCached /\ [][CachedNext]_vars

-----------------------------------------------------------------------------
(* Properties of the training service, checked under SpecTrain *)

RowOf(s, tag) ==
    {i \in RowIds(s) : trained_models[i].model_version = tag}

\* C1: in every reachable state each series has at most one row with
\* is_active = true, and exactly one once a fit of the series has committed
C1_OneActivePerSeries ==
    \A s \in Series :
        /\ Cardinality(ActiveIds(s)) <= 1
        /\ returned[s] # <<>> => Cardinality(ActiveIds(s)) = 1

\* a retrained series next to a fit that failed at its commit and one that
\* was rejected
C1_Witness ==
    \E s \in Series, p, o \in FitProcs :
        /\ Len(returned[s]) >= 2
        /\ fit[p].pc = "done" /\ fit[p].status = 500 /\ fit[p].series_id = s
        /\ fit[o].pc = "done" /\ fit[o].status = 422

\* C2: for every successful fit call the mean, std and threshold of the new
\* row are the mean and population standard deviation of the submitted values
\* and the submitted threshold
C2_StoredParamsAreFitted ==
    \A p \in FitProcs :
        (fit[p].pc = "done" /\ fit[p].status = 200) =>
            \E i \in RowOf(fit[p].series_id, fit[p].model_version) :
                /\ trained_models[i].mean = NpMean(fit[p].req.values)
                /\ trained_models[i].std = NpStd(fit[p].req.values)
                /\ trained_models[i].threshold = fit[p].req.threshold

\* C3: the committed versions of a series are exactly v1..vn, n the number of
\* fit calls answered with success; no two rows share a version, and a fit
\* that starts after another has returned gets a strictly larger number
C3_VersionsGapless ==
    /\ \A s \in Series :
         LET n == Len(returned[s]) IN
           /\ Cardinality(RowIds(s)) = n
           /\ {trained_models[i].model_version : i \in RowIds(s)}
                  = {FormatVersion(k) : k \in 1..n}
           /\ \A k \in 1..n : returned[s][k] = FormatVersion(k)
    /\ \A p \in FitProcs :
         (fit[p].pc = "done" /\ fit[p].status = 200) =>
             \A k \in 1..fit[p].seen :
                 ParseVersion(returned[fit[p].series_id][k])
                     < ParseVersion(fit[p].model_version)

\* three committed versions of one series, the last from a call that began
\* after an earlier one had returned
C3_Witness ==
    \E s \in Series, p \in FitProcs :
        /\ Len(returned[s]) = 3
        /\ fit[p].pc = "done" /\ fit[p].status = 200
        /\ fit[p].series_id = s /\ fit[p].seen >= 1

\* C4: after N successful fit calls on a series the only active row is vN,
\* the version the N-th call returned; v1..vN-1 are inactive and still stored
C4_LatestIsActive ==
    \A s \in Series :
        LET n == Len(returned[s]) IN
          n > 0 =>
            /\ ActiveIds(s) = RowOf(s, FormatVersion(n))
            /\ returned[s][n] = FormatVersion(n)
            /\ \A k \in 1..(n - 1) :
                 /\ Cardinality(RowOf(s, FormatVersion(k))) = 1
                 /\ \A i \in RowOf(s, FormatVersion(k)) :
                      ~trained_models[i].is_active

\* two trainings of a series have returned and no trainer is running
C4_Witness ==
    /\ \E s \in Series : Len(returned[s]) >= 2
    /\ \A p \in FitProcs : FitFree(p)
    /\ \E p \in FitProcs : fit[p].status = 200

\* C7: a fit call whose commit hits the uniqueness violation recomputes the
\* version and retries, so it is not answered with a 500 for that conflict
C7_ConflictIsRetried ==
    \A p \in FitProcs :
        fit[p].pc = "done" => ~(fit[p].status = 500 /\ fit[p].cause = "conflict")

\* C8: every step of a fit call other than its successful commit, the step
\* on which it fails included, leaves trained_models and training_data as
\* they are
C8_FailedFitLeavesStore ==
    [][\A p \in FitProcs :
          (fit'[p] # fit[p] /\ ~(fit'[p].pc = "done" /\ fit'[p].status = 200))
              => (trained_models' = trained_models
                    /\ training_data' = training_data)]_vars

\* a fit failed after its deactivating UPDATE was issued and the series
\* still has its active version
C8_Witness ==
    \E p \in FitProcs :
        /\ fit[p].pc = "done" /\ fit[p].status = 500 /\ fit[p].updated
        /\ Cardinality(ActiveIds(fit[p].series_id)) = 1

-----------------------------------------------------------------------------
(* Properties of the inference service, checked under Spec and SpecTimed *)

Answered(q) == pred[q].pc = "done" /\ pred[q].status = 200

\* C5: every predict answered with 200 reports anomaly = true iff
\* abs(value - mean) > threshold * std for the value submitted in that call
\* and the parameters of the version it reports
C5_ClassifiedByOwnValue ==
    \A q \in PredProcs :
        Answered(q) =>
            \E i \in RowOf(pred[q].series_id, pred[q].resp.model_version) :
                pred[q].resp.anomaly =
                    IsAnomaly(pred[q].value, trained_models[i].mean,
                              trained_models[i].std,
                              trained_models[i].threshold)

\* C6: a predict issued more than MODEL_TTL seconds after the last commit of
\* its series, with no retrain during the call, reports the latest version
C6_StaleAtMostModelTtl ==
    \A q \in PredProcs :
        (/\ Answered(q)
         /\ pred[q].late
         /\ pred[q].seen = pred[q].latest)
            => pred[q].resp.model_version
                   = returned[pred[q].series_id][pred[q].latest]

\* C9: the mean, std, threshold and version label a predict classifies with
\* all come from one committed row of its series, and its answer and its log
\* row carry that label and the classification by those parameters
C9_OneRowSnapshot ==
    \A q \in PredProcs :
        /\ pred[q].model_params # NoModel =>
             \E i \in RowIds(pred[q].series_id) :
                 /\ pred[q].model_params.mean = trained_models[i].mean
                 /\ pred[q].model_params.std = trained_models[i].std
                 /\ pred[q].model_params.threshold
                        = trained_models[i].threshold
                 /\ pred[q].model_params.model_version
                        = trained_models[i].model_version
        /\ (Answered(q) /\ pred[q].source # "prediction_cache") =>
             /\ pred[q].resp.model_version
                    = pred[q].model_params.model_version
             /\ pred[q].resp.anomaly =
                    IsAnomaly(pred[q].value, pred[q].model_params.mean,
                              pred[q].model_params.std,
                              pred[q].model_params.threshold)
        /\ Answered(q) =>
             RowOf(pred[q].series_id, pred[q].resp.model_version) # {}

\* a predict answered from the cached parameters of v1 after v2 was
\* committed, and one that read the store while a trainer was in flight
C9_Witness ==
    \E q \in PredProcs :
        /\ Answered(q)
        /\ pred[q].source = "model_cache"
        /\ ParseVersion(pred[q].resp.model_version)
               < Len(returned[pred[q].series_id])
        /\ \E p \in FitProcs : fit[p].pc = "commit"

\* C10: a predict that misses both caches reads the row active at that
\* moment, which is the version the latest fit returned, stores its complete
\* parameters in the model cache with a 3600 s TTL and reports its version
C10_MissReadsActiveRow ==
    /\ [][\A q \in PredProcs :
            /\ (pred[q].pc = "db" /\ pred'[q].pc = "put_model") =>
                 LET s == pred[q].series_id
                     i == pred'[q].row IN
                   /\ i \in ActiveIds(s)
                   /\ trained_models[i].model_version
                          = returned[s][Len(returned[s])]
                   /\ pred'[q].model_params.mean = trained_models[i].mean
                   /\ pred'[q].model_params.std = trained_models[i].std
                   /\ pred'[q].model_params.threshold
                          = trained_models[i].threshold
                   /\ pred'[q].model_params.model_version
                          = trained_models[i].model_version
            /\ (pred[q].pc = "put_model" /\ pred'[q].pc = "score") =>
                 redis'[ModelKey(pred[q].series_id)]
                     = [value |-> pred[q].model_params, ttl |-> 3600]]_vars
    /\ [](\A q \in PredProcs :
            (Answered(q) /\ pred[q].source = "db") =>
                /\ pred[q].resp.model_version
                       = trained_models[pred[q].row].model_version
                /\ ParseVersion(pred[q].resp.model_version) >= pred[q].seen
                /\ ParseVersion(pred[q].resp.model_version) <= pred[q].latest)

\* a predict issued after the retraining returned v2 missed both caches and
\* reports v2, with the parameters now cached
C10_Witness ==
    \E q \in PredProcs :
        /\ Answered(q) /\ pred[q].source = "db"
        /\ pred[q].seen = 2 /\ pred[q].latest = 2
        /\ pred[q].resp.model_version = FormatVersion(2)
        /\ redis[ModelKey(pred[q].series_id)]
               = [value |-> pred[q].model_params, ttl |-> MODEL_TTL]

\* C12: a predict for a series with no model-cache entry and no active row
\* is answered 404 without a version, and the call writes nothing: no cache
\* entry of either kind and no PredictionLog row
C12_NotFoundWritesNothing ==
    /\ [][\A q \in PredProcs :
            /\ (pred[q].pc = "db" /\ pred'[q] # pred[q]
                    /\ ActiveIds(pred[q].series_id) = {}) =>
                 pred'[q].pc = "done" /\ pred'[q].status = 404
            /\ (pred'[q] # pred[q]
                    /\ \/ pred'[q].pc \in {"model_cache", "db"}
                       \/ pred'[q].status = 404) =>
                 /\ redis' = redis
                 /\ prediction_logs' = prediction_logs
                 /\ trained_models' = trained_models]_vars
    /\ [](\A q \in PredProcs :
            (pred[q].pc = "done" /\ pred[q].status = 404) =>
                /\ pred[q].resp = NoResp
                /\ pred[q].model_params = NoModel
                /\ pred[q].log_id = 0
                /\ Len(prediction_logs) = pred[q].logs_before
                /\ redis[ModelKey(pred[q].series_id)] = NoEntry
                /\ redis[PredictionKey(pred[q].series_id,
                                       pred[q].timestamp)] = NoEntry)

\* a predict answered 404 while the first fit of its series has not yet
\* committed
C12_Witness ==
    \E q \in PredProcs, p \in FitProcs :
        /\ pred[q].pc = "done" /\ pred[q].status = 404
        /\ fit[p].pc = "commit" /\ fit[p].series_id = pred[q].series_id

\* the rows appended to prediction_logs since the call of q began
RowsLoggedSince(q) ==
    SubSeq(prediction_logs, pred[q].logs_before + 1, Len(prediction_logs))

\* the row a call answered by q has to leave in prediction_logs
LogRowOfAnswer(q) ==
    [series_id |-> pred[q].series_id,
     timestamp |-> DecimalValue(pred[q].timestamp),
     value |-> pred[q].value,
     prediction |-> pred[q].resp.anomaly,
     model_version |-> pred[q].resp.model_version,
     latency_set |-> TRUE]

\* C13 as stated: every predict answered 200 has appended exactly one
\* PredictionLog row, with the submitted timestamp and value and the
\* returned outcome and version
C13_EveryAnswerLogged ==
    \A q \in PredProcs :
        Answered(q) => RowsLoggedSince(q) = <<LogRowOfAnswer(q)>>

\* C13: every predict answered 200 after classifying the value (not from
\* the prediction cache) has appended exactly one PredictionLog row, with
\* the submitted timestamp and value and the returned outcome and version;
\* a predict answered from the prediction cache has appended none
C13_ClassifiedAnswerLogged ==
    \A q \in PredProcs :
        /\ (Answered(q) /\ pred[q].source # "prediction_cache") =>
               RowsLoggedSince(q) = <<LogRowOfAnswer(q)>>
        /\ (Answered(q) /\ pred[q].source = "prediction_cache") =>
               RowsLoggedSince(q) = <<>>

\* a classified answer whose row is the log's newest, after a retraining
C13_Witness ==
    \E q \in PredProcs :
        /\ Answered(q) /\ pred[q].source = "db"
        /\ pred[q].log_id = Len(prediction_logs)
        /\ pred[q].resp.anomaly
        /\ Len(returned[pred[q].series_id]) = 2

\* C14: a predict whose classification was computed is answered 200 even if
\* the commit of its PredictionLog row fails; a logging failure is never an
\* error response
C14_LogFailureStillAnswers ==
    \A q \in PredProcs :
        (pred[q].pc = "done" /\ pred[q].cause = "log") =>
            /\ pred[q].status = 200
            /\ pred[q].resp # NoResp

\* a cached model entry has the parameters and version of row i
EntryIsRow(entry, i) ==
    /\ entry.mean = trained_models[i].mean
    /\ entry.std = trained_models[i].std
    /\ entry.threshold = trained_models[i].threshold
    /\ entry.model_version = trained_models[i].model_version

\* the model-cache entry of every series is a committed row of the series
CacheHeldByStore ==
    \A s \in Series :
        redis[ModelKey(s)] # NoEntry =>
            \E i \in RowIds(s) : EntryIsRow(redis[ModelKey(s)].value, i)

\* C24 as stated: every model-cache entry is a committed row of its series,
\* and that row is active at the moment the entry is written
C24_EntryActiveWhenWritten ==
    /\ []CacheHeldByStore
    /\ [][\A q \in PredProcs :
            (pred[q].pc = "put_model" /\ pred'[q].pc = "score") =>
                \E i \in ActiveIds(pred[q].series_id) :
                    EntryIsRow(redis'[ModelKey(pred[q].series_id)].value,
                               i)]_vars

\* C24: every model-cache entry has the mean, std, threshold and version of
\* a committed row of its series, the row that was active when the predict
\* that wrote the entry read the store; the cache holds no value the store
\* does not hold
C24_EntryOfRowReadActive ==
    /\ []CacheHeldByStore
    /\ [][\A q \in PredProcs :
            /\ (pred[q].pc = "db" /\ pred'[q].pc = "put_model") =>
                 pred'[q].row \in ActiveIds(pred[q].series_id)
            /\ (pred[q].pc = "put_model" /\ pred'[q].pc = "score") =>
                 /\ pred[q].row \in RowIds(pred[q].series_id)
                 /\ EntryIsRow(redis'[ModelKey(pred[q].series_id)].value,
                               pred[q].row)]_vars

\* an entry of v1 in the cache, written by a predict answered from the
\* store, after the commit of v2 switched that row off
C24_Witness ==
    \E q \in PredProcs :
        /\ Answered(q) /\ pred[q].source = "db"
        /\ ~trained_models[pred[q].row].is_active
        /\ redis[ModelKey(pred[q].series_id)] # NoEntry
        /\ EntryIsRow(redis[ModelKey(pred[q].series_id)].value, pred[q].row)

\* C25: a predict whose timestamp does not parse as a unix timestamp is
\* answered with a client validation error, not with a server error
C25_BadTimestampIsClientError ==
    \A q \in PredProcs :
        (/\ pred[q].pc = "done"
         /\ ~IntParses(pred[q].timestamp)
         /\ pred[q].cause # "not_found") =>
            pred[q].status = 422

\* C26 as stated: no committed PredictionLog row is deleted and no field
\* of a committed row is changed by any step
C26_LogAppendOnly ==
    [][/\ Len(prediction_logs') >= Len(prediction_logs)
       /\ \A i \in 1..Len(prediction_logs) :
            prediction_logs'[i] = prediction_logs[i]]_vars

\* C26: no committed PredictionLog row is deleted and its series, timestamp,
\* value, outcome and version never change; the only write to a committed
\* row is that of its latencies, once, by the next step of the predict call
\* that inserted it
C26_LogRecordKept ==
    [][/\ Len(prediction_logs') >= Len(prediction_logs)
       /\ \A i \in 1..Len(prediction_logs) :
            LET old == prediction_logs[i]
                new == prediction_logs'[i] IN
              /\ new.series_id = old.series_id
              /\ new.timestamp = old.timestamp
              /\ new.value = old.value
              /\ new.prediction = old.prediction
              /\ new.model_version = old.model_version
              /\ old.latency_set => new.latency_set
              /\ (~old.latency_set /\ new.latency_set) =>
                   \E q \in PredProcs :
                       /\ pred[q].pc = "log_update"
                       /\ pred[q].log_id = i
                       /\ pred'[q].pc = "put_prediction"]_vars

\* an answered predict whose log row has its latencies written
C26_Witness ==
    \E q \in PredProcs :
        /\ Answered(q)
        /\ pred[q].log_id \in 1..Len(prediction_logs)
        /\ prediction_logs[pred[q].log_id].latency_set
        /\ prediction_logs[pred[q].log_id].prediction

-----------------------------------------------------------------------------
(* The answer from the prediction cache, under Spec *)

-----------------------------------------------------------------------------
(* The caches and the training service, under Spec *)

\* C36: no step of a fit call, of a successful or of a failed one, changes
\* Redis; an entry appears or gets another value only in a step of a
\* predict call, and otherwise entries only go away.
C36_FitLeavesCaches ==
    [][/\ (\E p \in FitProcs : fit'[p] # fit[p]) => redis' = redis
       /\ \A k \in Keys :
            redis'[k] # redis[k]
            => \/ \E q \in PredProcs :
                    /\ pred[q].pc \in {"put_model", "put_prediction"}
                    /\ pred'[q] # pred[q]
                    /\ k \in {<<"model", pred[q].series_id>>,
                               <<"prediction", pred[q].series_id,
                                 pred[q].timestamp>>}
               \/ /\ redis'[k] = NoEntry
                  /\ fit' = fit
                  /\ pred' = pred]_vars

\* reached: a fit has committed v2 and the model cache still holds v1
C36_Witness ==
    \E p \in FitProcs, s \in Series :
        /\ fit[p].pc = "done"
        /\ fit[p].status = 200
        /\ fit[p].series_id = s
        /\ fit[p].resp.model_version = FormatVersion(2)
        /\ redis[<<"model", s>>] # NoEntry
        /\ redis[<<"model", s>>].value.model_version = FormatVersion(1)
        /\ \E i \in RowIds(s) :
             /\ trained_models[i].model_version = FormatVersion(1)
             /\ ~trained_models[i].is_active

-----------------------------------------------------------------------------
(* The memoized predictions over time, under SpecTimed *)

\* the keys of the prediction cache
PredictionKeys ==
    {PredictionKey(s, ts) : s \in Series, ts \in PredTimestamps}

\* C31: the predict call that classified a value ends by storing its
\* response under prediction:{series_id}:{timestamp} with a TTL of 300 s
\* and answering 200; a stored response is never overwritten and leaves the
\* cache only when its 300 s have passed; a call that finds a response
\* stored returns it, so a repeat of a request inside that time gets the
\* anomaly flag and the model_version of the first answer, also when the
\* series was retrained in between.
C31_RepeatServedFromCache ==
    /\ [][\A q \in PredProcs :
             (pred[q].pc = "put_prediction" /\ pred'[q].pc = "done")
             => /\ pred'[q].status = 200
                /\ pred'[q].resp = pred[q].resp
                /\ DOMAIN pred'[q].resp = {"anomaly", "model_version"}
                /\ redis'[PredictionKey(pred[q].series_id,
                                        pred[q].timestamp)]
                       = [value |-> pred'[q].resp, ttl |-> 300]]_vars
    /\ [][\A k \in PredictionKeys :
             redis[k] # NoEntry
             => \/ redis'[k] = redis[k]
                \/ /\ redis'[k] # NoEntry
                   /\ redis'[k].value = redis[k].value
                   /\ redis'[k].ttl = redis[k].ttl - TickSeconds
                   /\ pred' = pred
                \/ /\ redis'[k] = NoEntry
                   /\ redis[k].ttl <= TickSeconds
                   /\ pred' = pred]_vars
    /\ [][\A q \in PredProcs :
             (PredFree(q) /\ pred'[q] # pred[q])
             => LET k == PredictionKey(pred'[q].series_id,
                                       pred'[q].timestamp) IN
                  redis[k] # NoEntry
                  => /\ pred'[q].pc = "done"
                     /\ pred'[q].status = 200
                     /\ pred'[q].resp = redis[k].value
                     /\ (/\ pred[q].pc = "done"
                         /\ pred[q].status = 200
                         /\ pred[q].series_id = pred'[q].series_id
                         /\ pred[q].timestamp = pred'[q].timestamp
                         /\ pred[q].value = pred'[q].value)
                        => pred'[q].resp = pred[q].resp]_vars

\* reached: a request is repeated 100 s after it was classified under v1,
\* with v2 active by then, and is answered with v1
C31_Witness ==
    \E q \in PredProcs :
        /\ pred[q].pc = "done"
        /\ pred[q].status = 200
        /\ pred[q].source = "prediction_cache"
        /\ Len(returned[pred[q].series_id]) = 2
        /\ pred[q].resp.model_version = FormatVersion(1)
        /\ redis[PredictionKey(pred[q].series_id, pred[q].timestamp)]
              = [value |-> pred[q].resp, ttl |-> 300 - TickSeconds]
        /\ \E i \in 1..Len(prediction_logs) :
             /\ prediction_logs[i].series_id = pred[q].series_id
             /\ prediction_logs[i].value = pred[q].value
             /\ prediction_logs[i].prediction = pred[q].resp.anomaly

-----------------------------------------------------------------------------
(* Expiry of the caches, under SpecLive *)

\* the Redis keys of a series
KeysOf(s) ==
    {ModelKey(s)} \cup {PredictionKey(s, ts) : ts \in PredTimestamps}

\* no entry of the series carries another version than vn, so every predict
\* of the series answers from vn
CachesServe(s, n) ==
    \A k \in KeysOf(s) :
        redis[k] = NoEntry \/ redis[k].value.model_version = FormatVersion(n)

\* C23: the TTL of a cache entry only runs down between two writes of its
\* key and a cache hit returns the entry and leaves it as it is; so when
\* version vn of a series is committed and no fit commits after it, from
\* some moment on the caches of the series hold nothing but vn and every
\* predict of the series reports vn
C23_NewVersionEventuallyServed ==
    /\ [][/\ \A k \in Keys :
              (redis[k] # NoEntry /\ redis'[k] # NoEntry
                  /\ redis'[k].ttl > redis[k].ttl) =>
                 \E q \in PredProcs :
                     pred[q].pc \in {"put_model", "put_prediction"}
                         /\ pred'[q] # pred[q]
          /\ \A q \in PredProcs :
              LET s == pred'[q].series_id IN
                /\ (PredFree(q) /\ pred'[q] # pred[q]
                        /\ pred'[q].source = "prediction_cache") =>
                     /\ redis' = redis
                     /\ pred'[q].resp
                            = redis[PredictionKey(s, pred'[q].timestamp)].value
                /\ (pred[q].pc = "model_cache" /\ pred'[q] # pred[q]
                        /\ pred'[q].source = "model_cache") =>
                     /\ redis' = redis
                     /\ pred'[q].model_params = redis[ModelKey(s)].value]_vars
    /\ \A s \in Served, n \in 1..MaxRows :
         <>[](Len(returned[s]) = n) => <>[]CachesServe(s, n)

\* after the retraining the old parameters expired from the model cache and
\* a predict read v2 from the store
C23_Witness ==
    \E q \in PredProcs :
        /\ Answered(q) /\ pred[q].source = "db" /\ pred[q].late
        /\ pred[q].seen = 2
        /\ pred[q].resp.model_version = FormatVersion(2)
        /\ redis[ModelKey(pred[q].series_id)]
               = [value |-> pred[q].model_params, ttl |-> MODEL_TTL]

-----------------------------------------------------------------------------
(* Properties of predict with a cache it did not fill, under SpecCached *)

\* the version label a cached model entry records
RecordedVersion(entry) ==
    IF "model_version" \in DOMAIN entry THEN entry.model_version
    ELSE entry.version

\* C11: a predict that finds an entry for its series in the model cache is
\* answered 200 with the classification by the cached parameters and the
\* version recorded in the entry, and reads no row of the store
C11_CachedEntryAnswers ==
    \A q \in PredProcs :
        (/\ pred[q].pc = "done"
         /\ pred[q].source = "model_cache"
         /\ pred[q].cause \notin {"timestamp", "log"}) =>
            /\ pred[q].status = 200
            /\ pred[q].row = 0
            /\ pred[q].resp.model_version
                   = RecordedVersion(pred[q].model_params)
            /\ pred[q].resp.anomaly =
                   IsAnomaly(pred[q].value, pred[q].model_params.mean,
                             pred[q].model_params.std,
                             pred[q].model_params.threshold)

\* C15: a predict for a trained series that finds Redis unreachable is
\* answered 200 with the classification by the parameters of the store
C15_CacheDownStillAnswers ==
    \A q \in PredProcs :
        (/\ pred[q].pc = "done"
         /\ pred[q].cause = "cache"
         /\ pred[q].seen >= 1) =>
            /\ pred[q].status = 200
            /\ pred[q].resp # NoResp

-----------------------------------------------------------------------------
(* Properties of the rows of trained_models over time, under SpecTrain *)

\* C21: a committed TrainedModel row is never deleted and its series, mean,
\* std, threshold, version and training_points never change; its is_active
\* flag never turns from false to true, and turns from true to false only
\* in the step that commits a newer version of the same series
C21_RowsFrozenButFlag ==
    [][/\ Len(trained_models') >= Len(trained_models)
       /\ \A i \in 1..Len(trained_models) :
            LET old == trained_models[i]
                new == trained_models'[i] IN
              /\ new.series_id = old.series_id
              /\ new.mean = old.mean
              /\ new.std = old.std
              /\ new.threshold = old.threshold
              /\ new.model_version = old.model_version
              /\ new.training_points = old.training_points
              /\ new.is_active => old.is_active
              /\ (old.is_active /\ ~new.is_active) =>
                   /\ Len(trained_models') = Len(trained_models) + 1
                   /\ LET added == trained_models'[Len(trained_models')] IN
                        /\ added.series_id = old.series_id
                        /\ added.is_active
                        /\ ParseVersion(added.model_version)
                               > ParseVersion(old.model_version)]_vars

\* three rows, of which one series has a row switched off below its active
\* successor, next to a trainer whose commit met the unique constraint
C21_Witness ==
    /\ Len(trained_models) = 3
    /\ \E i, j \in 1..Len(trained_models) :
         /\ i < j
         /\ trained_models[i].series_id = trained_models[j].series_id
         /\ ~trained_models[i].is_active
         /\ trained_models[j].is_active
    /\ \E p \in FitProcs : fit[p].pc = "done" /\ fit[p].cause = "conflict"

\* C22: a step of a fit call for one series changes no TrainedModel or
\* TrainingData row and no version numbering of another series, waits only
\* for a row lock held by a fit of its own series and meets the unique
\* constraint only on a row of its own series
C22_OtherSeriesUntouched ==
    [][\A p \in FitProcs :
         fit'[p] # fit[p] =>
           LET a == fit'[p].series_id IN
             /\ \A i \in 1..Len(trained_models) :
                  trained_models[i].series_id # a =>
                      trained_models'[i] = trained_models[i]
             /\ \A i \in (Len(trained_models) + 1)..Len(trained_models') :
                  trained_models'[i].series_id = a
             /\ \A j \in 1..Len(training_data) :
                  training_data'[j] = training_data[j]
             /\ \A j \in (Len(training_data) + 1)..Len(training_data') :
                  training_data'[j].series_id = a
             /\ \A s \in Series \ {a} : returned'[s] = returned[s]
             /\ fit'[p].pc = "update_wait" =>
                  \E o \in FitProcs \ {p} :
                      fit[o].series_id = a /\ fit[o].deact # {}
             /\ fit'[p].cause = "conflict" =>
                  \E i \in 1..Len(trained_models) :
                      /\ trained_models[i].series_id = a
                      /\ trained_models[i].model_version
                             = fit[p].model_version]_vars

\* a retraining of one series committed while a retraining of the other
\* series holds the lock of its own active row
C22_Witness ==
    \E p, o \in FitProcs :
        /\ fit[p].pc = "done" /\ fit[p].status = 200
        /\ fit[p].model_version = FormatVersion(2)
        /\ fit[o].pc = "commit" /\ fit[o].deact # {}
        /\ fit[o].series_id # fit[p].series_id

-----------------------------------------------------------------------------
(* Racing commits on one series, under SpecTrain *)

\* a fit of the series of p was committed after p read the versions
Overtaken(p) ==
    fit[p].pc \in {"update", "update_wait", "commit"}
        /\ fit[p].seen < Len(returned[fit[p].series_id])

\* C35: a fit call commits only when no fit of its series was committed
\* since it read the versions; an overtaken call never commits, is
\* answered 500 when its commit is tried, changes no table on any of its
\* steps, and the version the last successful fit returned stays the one
\* active row of the series.
C35_OvertakenFitFails ==
    [][\A p \in FitProcs :
         /\ (/\ fit'[p] # fit[p]
             /\ fit'[p].pc = "done"
             /\ fit'[p].status = 200)
            => /\ ~Overtaken(p)
               /\ fit[p].seen = Len(returned[fit[p].series_id])
         /\ (Overtaken(p) /\ fit'[p] # fit[p])
            => LET s == fit[p].series_id
                   last == returned[s][Len(returned[s])] IN
                 /\ trained_models' = trained_models
                 /\ training_data' = training_data
                 /\ returned' = returned
                 /\ fit'[p].pc = "done"
                    => /\ fit'[p].status = 500
                       /\ fit'[p].cause \in {"conflict", "storage"}
                       /\ fit'[p].resp = NoResp
                 /\ (fit[p].pc = "commit" /\ fit'[p].cause = "conflict")
                    => \E i \in RowIds(s) :
                         trained_models[i].model_version
                             = fit[p].model_version
                 /\ \A i \in RowIds(s) :
                      trained_models'[i].is_active
                          <=> trained_models'[i].model_version = last]_vars

\* reached: a fit that read v1 alone lost the race for v2 on the uniqueness
\* constraint after its UPDATE was issued, and v2 is active
C35_Witness ==
    \E p \in FitProcs :
        /\ fit[p].pc = "done"
        /\ fit[p].status = 500
        /\ fit[p].cause = "conflict"
        /\ fit[p].updated
        /\ fit[p].seen = 1
        /\ fit[p].model_version = FormatVersion(2)
        /\ Len(returned[fit[p].series_id]) = 2
        /\ \E i \in ActiveIds(fit[p].series_id) :
             trained_models[i].model_version = FormatVersion(2)

-----------------------------------------------------------------------------
(* Properties of the validation of fit requests, under SpecValidate *)

Submitted(p) == fit[p].pc # "idle"

LengthsDiffer(req) == Len(req.timestamps) # Len(req.values)

AllEqual(values) ==
    \A i, j \in 1..Len(values) : values[i] = values[j]

Ascending(ts) == \A i, j \in 1..Len(ts) : i < j => ts[i] <= ts[j]

NonFinite(values) == \E i \in 1..Len(values) : values[i] = NaN

\* C16: a fit request whose timestamps and values differ in length, that
\* has fewer than 2 points or whose values are all equal is answered 422,
\* and the call creates or changes no row: no version, no TrainingData row,
\* no active flag
C16_InvalidFitRejected ==
    /\ [](\A p \in FitProcs :
            (/\ Submitted(p)
             /\ \/ LengthsDiffer(fit[p].req)
                \/ Len(fit[p].req.timestamps) < 2
                \/ AllEqual(fit[p].req.values)) =>
                /\ fit[p].pc = "done"
                /\ fit[p].status = 422
                /\ fit[p].resp = NoResp
                /\ fit[p].model_version = <<>>)
    /\ [][\A p \in FitProcs :
            (fit'[p] # fit[p] /\ fit'[p].status = 422) =>
                /\ trained_models' = trained_models
                /\ training_data' = training_data
                /\ returned' = returned]_vars

\* a constant sample rejected on a series that has an active version
C16_Witness ==
    \E p \in FitProcs :
        /\ fit[p].pc = "done" /\ fit[p].status = 422
        /\ fit[p].req.timestamps = <<1, 2>>
        /\ fit[p].req.values = <<2, 2>>
        /\ ActiveIds(fit[p].series_id) # {}

\* C17: a fit request with threshold <= 0 is answered with a client
\* validation error and creates no version
C17_NonPositiveThresholdRejected ==
    /\ \A p \in FitProcs :
         (/\ fit[p].pc = "done"
          /\ fit[p].req.threshold <= 0
          /\ fit[p].cause \notin {"storage", "data"}) =>
             fit[p].status = 422
    /\ \A i \in 1..Len(trained_models) : trained_models[i].threshold > 0

\* a request that differs from a valid one at most in the order of its
\* timestamps
ValidButForOrder(req) ==
    /\ ~LengthsDiffer(req)
    /\ Len(req.timestamps) >= 2
    /\ ~AllEqual(req.values)
    /\ ~NonFinite(req.values)
    /\ req.threshold > 0

\* C18 as stated: a fit request that is valid but for the order of its
\* timestamps is accepted and a new version is committed for it
C18_UnsortedAccepted ==
    \A p \in FitProcs :
        (/\ fit[p].pc = "done"
         /\ ValidButForOrder(fit[p].req)
         /\ ~Ascending(fit[p].req.timestamps)
         /\ fit[p].cause # "storage") =>
            /\ fit[p].status = 200
            /\ RowOf(fit[p].series_id, fit[p].model_version) # {}

\* C18: a fit request whose timestamps are not in ascending order is
\* answered 422; its points are not sorted, no version is committed for it,
\* and every stored sample has its timestamps ascending as submitted
C18_UnsortedRejected ==
    /\ \A p \in FitProcs :
         (Submitted(p) /\ ~Ascending(fit[p].req.timestamps)) =>
             /\ fit[p].pc = "done"
             /\ fit[p].status = 422
             /\ fit[p].model_version = <<>>
    /\ \A j \in 1..Len(training_data) :
         Ascending(training_data[j].timestamps)

\* an otherwise valid sample with swapped timestamps, rejected
C18_Witness ==
    \E p \in FitProcs :
        /\ fit[p].pc = "done" /\ fit[p].status = 422
        /\ fit[p].req.timestamps = <<2, 1>>
        /\ ValidButForOrder(fit[p].req)
        /\ Len(returned[fit[p].series_id]) >= 1

\* C19: a fit request that contains a non-finite value is answered with a
\* client error, and no stored version has a non-finite mean or std
C19_NonFiniteRejected ==
    /\ \A p \in FitProcs :
         (/\ fit[p].pc = "done"
          /\ NonFinite(fit[p].req.values)
          /\ fit[p].cause # "storage") =>
             fit[p].status = 422
    /\ \A i \in 1..Len(trained_models) :
         trained_models[i].mean # NaN /\ trained_models[i].std # NaN

\* the TrainingData rows filed under the series and version of a row
SamplesOf(r) ==
    {j \in 1..Len(training_data) :
        /\ training_data[j].series_id = r.series_id
        /\ training_data[j].model_version = r.model_version}

\* C20: every TrainedModel row has exactly one TrainingData row of its
\* series and version and every TrainingData row has its TrainedModel row;
\* training_points, data_points_count and the points_used of the response
\* all equal the number of points submitted in the call
C20_RowsPaired ==
    /\ \A i \in 1..Len(trained_models) :
         /\ Cardinality(SamplesOf(trained_models[i])) = 1
         /\ \A j \in SamplesOf(trained_models[i]) :
              /\ training_data[j].data_points_count
                     = trained_models[i].training_points
              /\ training_data[j].data_points_count
                     = Len(training_data[j].timestamps)
    /\ \A j \in 1..Len(training_data) :
         RowOf(training_data[j].series_id,
               training_data[j].model_version) # {}
    /\ \A p \in FitProcs :
         (fit[p].pc = "done" /\ fit[p].status = 200) =>
             /\ fit[p].resp.points_used = Len(fit[p].req.timestamps)
             /\ \A i \in RowOf(fit[p].series_id, fit[p].resp.model_version) :
                  /\ trained_models[i].training_points
                         = fit[p].resp.points_used
                  /\ \A j \in SamplesOf(trained_models[i]) :
                       /\ training_data[j].timestamps
                              = fit[p].req.timestamps
                       /\ training_data[j].values = fit[p].req.values

\* a fit of four points answered on a series whose earlier version was
\* trained on two
C20_Witness ==
    \E p \in FitProcs :
        /\ fit[p].pc = "done" /\ fit[p].status = 200
        /\ fit[p].resp.points_used = 4
        /\ \E i \in RowIds(fit[p].series_id) :
             trained_models[i].training_points = 2

(***************************************************************************)
(* Properties of the monitoring service, under SpecMonitor                 *)
(***************************************************************************)

\* the step in which plot call m is answered
PlotAnswers(m) == mon[m].pc = "data" /\ mon'[m].pc = "done"

\* C27: GET /plot without a version, answered while no fit call on the
\* series returns, is answered 200 with the version the last successful fit
\* returned, which is the one active version of the series and the version
\* of its newest row, and with the sample stored for that version.
C27_PlotLatestIsLastReturned ==
    [][\A m \in MonProcs :
         (/\ PlotAnswers(m)
          /\ ~mon[m].given
          /\ mon[m].seen = Len(returned[mon[m].series_id]))
         => LET s == mon[m].series_id
                n == Len(returned[s])
                r == mon'[m].resp IN
              /\ n > 0
              /\ mon'[m].status = 200
              /\ r.series_id = s
              /\ r.model_version = returned[s][n]
              /\ ActiveIds(s) # {}
              /\ \A i \in ActiveIds(s) :
                   trained_models[i].model_version = r.model_version
              /\ \A i \in RowIds(s) :
                   ParseVersion(trained_models[i].model_version)
                       <= ParseVersion(r.model_version)
              /\ \E j \in SampleIds(s, r.model_version) :
                   /\ r.data_points =
                          PlotDataPoints(training_data[j].timestamps,
                                         training_data[j].values)
                   /\ r.data_points_count =
                          Len(training_data[j].timestamps)]_vars

\* reached: after two successful fits the plot without a version shows the
\* second version
C27_Witness ==
    \E m \in MonProcs :
        /\ mon[m].pc = "done"
        /\ mon[m].op = "plot"
        /\ ~mon[m].given
        /\ mon[m].status = 200
        /\ Len(returned[mon[m].series_id]) = 2
        /\ mon[m].seen = 2
        /\ mon[m].resp.model_version = FormatVersion(2)
        /\ mon[m].resp.data_points_count > 0

\* the points a plot shows for the timestamps and values of a fit request
SubmittedPoints(req) ==
    [i \in 1..Len(req.timestamps) |->
        [timestamp |-> req.timestamps[i], value |-> req.values[i],
         is_anomaly |-> FALSE]]

\* C28: GET /plot with a version is answered 200 exactly when the series
\* has that version, and then with the points of the one sample stored for
\* it; the sample stored by a fit call holds the timestamps and values of
\* its request, in order and count; and no stored sample is ever changed
\* or removed, so the answer for a version stays what it was.
C28_PlotReproducesSample ==
    /\ [][\A p \in Trainer :
             (fit'[p] # fit[p] /\ fit'[p].pc = "done"
                               /\ fit'[p].status = 200)
             => LET j == Len(training_data') IN
                  /\ j = Len(training_data) + 1
                  /\ training_data'[j].series_id = fit[p].series_id
                  /\ training_data'[j].model_version
                         = fit'[p].resp.model_version
                  /\ PlotDataPoints(training_data'[j].timestamps,
                                    training_data'[j].values)
                         = SubmittedPoints(fit[p].req)]_vars
    /\ [][/\ Len(training_data') >= Len(training_data)
          /\ \A j \in 1..Len(training_data) :
               training_data'[j] = training_data[j]]_vars
    /\ [][\A m \in MonProcs :
             (PlotAnswers(m) /\ mon[m].given)
             => LET s == mon[m].series_id
                    tag == mon[m].version IN
                  IF \E i \in RowIds(s) :
                        trained_models[i].model_version = tag
                  THEN /\ mon'[m].status = 200
                       /\ mon'[m].resp.model_version = tag
                       /\ Cardinality(SampleIds(s, tag)) = 1
                       /\ \A j \in SampleIds(s, tag) :
                            /\ mon'[m].resp.data_points =
                                   PlotDataPoints(
                                       training_data[j].timestamps,
                                       training_data[j].values)
                            /\ mon'[m].resp.data_points_count =
                                   Len(training_data[j].timestamps)
                  ELSE mon'[m].status # 200]_vars

\* reached: the first version is plotted after a second version with another
\* sample was trained
C28_Witness ==
    \E m \in MonProcs :
        /\ mon[m].pc = "done"
        /\ mon[m].status = 200
        /\ mon[m].given
        /\ mon[m].version = FormatVersion(1)
        /\ mon[m].seen = 2
        /\ \E j \in SampleIds(mon[m].series_id, FormatVersion(1)),
              k \in SampleIds(mon[m].series_id, FormatVersion(2)) :
             /\ training_data[j].values # training_data[k].values
             /\ mon[m].resp.data_points =
                    PlotDataPoints(training_data[j].timestamps,
                                   training_data[j].values)

\* C29: a plot call for a series without a model row, or with a version the
\* series has no row for, is answered 404 in that step and carries no data;
\* no plot call is answered 422, and a 404 answer never carries data.
C29_PlotNotFound ==
    /\ [][\A m \in MonProcs :
             /\ (/\ MonFree(m)
                 /\ mon'[m] # mon[m]
                 /\ mon'[m].op = "plot"
                 /\ ~mon'[m].given
                 /\ RowIds(mon'[m].series_id) = {})
                => /\ mon'[m].pc = "done"
                   /\ mon'[m].status = 404
                   /\ mon'[m].resp = NoResp
             /\ (/\ PlotAnswers(m)
                 /\ \A i \in RowIds(mon[m].series_id) :
                      trained_models[i].model_version # mon[m].version)
                => /\ mon'[m].status = 404
                   /\ mon'[m].resp = NoResp]_vars
    /\ [](\A m \in MonProcs :
             (mon[m].pc = "done" /\ mon[m].op = "plot")
             => /\ mon[m].status \in {200, 404}
                /\ mon[m].status = 404 <=> mon[m].resp = NoResp)

\* reached: a trained series is asked for a version it does not have
C29_Witness ==
    \E m \in MonProcs :
        /\ mon[m].pc = "done"
        /\ mon[m].op = "plot"
        /\ mon[m].given
        /\ mon[m].status = 404
        /\ mon[m].resp = NoResp
        /\ RowIds(mon[m].series_id) # {}
        /\ mon[m].version = <<"9", "9", ".", "9", "9">>

\* C30: GET /models lists every series that has a model row, each with the
\* versions of all its rows, the newest first.
C30_ModelsListsAllVersions ==
    [][\A m \in MonProcs :
         (mon'[m] # mon[m] /\ mon'[m].op = "models")
         => LET models == mon'[m].resp.models IN
              /\ mon'[m].status = 200
              /\ DOMAIN models = {s \in Series : RowIds(s) # {}}
              /\ \A s \in DOMAIN models :
                   LET n == Cardinality(RowIds(s)) IN
                     models[s] = [k \in 1..n |->
                                    FormatVersion(n + 1 - k)]]_vars

-----------------------------------------------------------------------------
(* Properties of the calls made while the database is away, under          *)
(* SpecOutage                                                              *)

\* the calls that were answered by a store that was unavailable from their
\* start to their answer
FitInOutage == {p \in FitProcs : fit[p].pc = "done" /\ fit[p].outage}
PredInOutage == {q \in PredProcs : pred[q].pc = "done" /\ pred[q].outage}

\* C32 as stated: every fit call with a valid body and every predict call
\* made while the store is unavailable is answered 500.
C32_OutageIsServerError ==
    /\ \A p \in FitInOutage :
         ToTimeSeriesOk(fit[p].req) /\ ModelFitOk(fit[p].req.values)
             => fit[p].status = 500
    /\ \A q \in PredInOutage : pred[q].status = 500

\* C32: while the store is unavailable no fit call returns success, a body
\* that fails validation being rejected 422 and every other being answered
\* 500; a predict call is answered 200 exactly when it finds a cached
\* prediction, which it returns, and 500 otherwise; and no table changes.
C32_OutageAnswers ==
    /\ [](\A p \in FitInOutage :
            /\ fit[p].resp = NoResp
            /\ IF ToTimeSeriesOk(fit[p].req) /\ ModelFitOk(fit[p].req.values)
               THEN fit[p].status = 500
               ELSE fit[p].status = 422)
    /\ [](\A q \in PredInOutage :
            IF pred[q].source = "prediction_cache"
            THEN pred[q].status = 200
            ELSE pred[q].status = 500 /\ pred[q].resp = NoResp)
    /\ [][\A q \in PredProcs :
             (~store_up /\ PredFree(q) /\ pred'[q] # pred[q])
             => LET k == PredictionKey(pred'[q].series_id,
                                       pred'[q].timestamp) IN
                  /\ pred'[q].outage
                  /\ redis[k] # NoEntry
                     => /\ pred'[q].pc = "done"
                        /\ pred'[q].source = "prediction_cache"
                        /\ pred'[q].resp = redis[k].value
                  /\ redis[k] = NoEntry => pred'[q].pc # "done"]_vars
    /\ [][\A p \in FitProcs :
             (~store_up /\ FitFree(p) /\ fit'[p] # fit[p])
             => fit'[p].pc = "done" /\ fit'[p].outage]_vars
    /\ [][~store_up
            => /\ trained_models' = trained_models
               /\ training_data' = training_data
               /\ prediction_logs' = prediction_logs]_vars

\* reached: with the store away, a predict call is answered 200 from the
\* prediction cache and a valid fit call is answered 500
C32_Witness ==
    /\ ~store_up
    /\ \E q \in PredInOutage :
         /\ pred[q].status = 200
         /\ pred[q].source = "prediction_cache"
    /\ \E p \in FitInOutage :
         /\ fit[p].status = 500
         /\ fit[p].cause = "storage"

-----------------------------------------------------------------------------
(* Properties of the classification, under SpecClassify *)

\* the predict calls answered with a classification they computed
Classified ==
    {q \in PredProcs :
        /\ pred[q].pc = "done"
        /\ pred[q].status = 200
        /\ pred[q].source \in {"db", "model_cache"}}

\* C33: a value that a predict call classified as normal with the mean, the
\* std > 0 and the threshold t of its model is classified as normal with
\* the same mean and std under every threshold above t.
C33_ThresholdMonotone ==
    \A q \in Classified :
        LET m == pred[q].model_params IN
          (m.std > 0 /\ ~pred[q].resp.anomaly)
          => \A t \in Thresholds :
               t > m.threshold
               => ~IsAnomaly(pred[q].value, m.mean, m.std, t)

\* reached: a value off the mean is normal under the threshold of its model
\* and an anomaly under a lower one
C33_Witness ==
    \E q \in Classified :
        LET m == pred[q].model_params IN
          /\ m.std > 0
          /\ ~pred[q].resp.anomaly
          /\ pred[q].value # m.mean
          /\ \E t \in Thresholds : t > m.threshold
          /\ \E t \in Thresholds :
               /\ t < m.threshold
               /\ IsAnomaly(pred[q].value, m.mean, m.std, t)

====
